---- MODULE Spec2Model ----
(***************************************************************************)
(* Conversation engine of filtra-mvp: the webhook handler of src/bot.py    *)
(* (staleness filter, deduplication, session load/create, timeout, hybrid  *)
(* routing: human mode, surveys, bot/menu mode) and the operator-side      *)
(* handlers of src/services/telegram_crm.py.                               *)
(*                                                                         *)
(* Text is a sequence of one-character strings.  Characters outside ASCII  *)
(* are written by name ("i_acute", "E_fire", ...).                         *)
(***************************************************************************)
EXTENDS Integers, Sequences, FiniteSets, TLC

VARIABLES
    users,              \* the "users" table: phone -> row
    PROCESSED_MSG_IDS,  \* bot.py: deque(maxlen=1000) of handled message ids
    now,                \* wall clock, seconds
    last,               \* what the last operation did (sends, writes, routing)
    delivered,          \* number of payloads delivered so far
    human_since,        \* history: phone -> time its session last entered human (-1: never)
    inflight            \* handlers that have started and not finished: slot -> position

vars == <<users, PROCESSED_MSG_IDS, now, last, delivered, human_since, inflight>>

----------------------------------------------------------------------------
(* Bounds of the model *)

DEDUP_MAXLEN == 2       \* stands for deque(maxlen=1000)
NumMsgIds == 3          \* distinct provider message ids
MaxTime == 3601         \* the clock stops here
MaxTopicAttempts == 2   \* a topic creation that succeeds does so by this attempt
MaxDeliveries == 4      \* payloads delivered in one behaviour
MaxInflight == 2        \* handlers of one process in flight at the same time
MaxEvents == 3          \* events handled in one behaviour of SpecRace
MaxChanges == 4         \* changes carried by one payload of SpecBatch

(* Program constants *)

STALE_SECONDS == 300
TIMEOUT_SECONDS == 3600
LIST_OVERFLOW == 10
PAGE_LIMIT == 15
LIST_ROW_CAP == 10
BUTTON_CAP == 3

Phones == {"p1"}
MsgIds == 1..NumMsgIds
NoId == 0               \* msg.get('id') is None
NoTs == -1              \* msg.get('timestamp') is None
TickSteps == {3600, 3601}

----------------------------------------------------------------------------
(* Text primitives *)

UpperChars == <<"A","B","C","D","E","F","G","H","I","J","K","L","M",
                "N","O","P","Q","R","S","T","U","V","W","X","Y","Z","I_acute","E_acute">>
LowerChars == <<"a","b","c","d","e","f","g","h","i","j","k","l","m",
                "n","o","p","q","r","s","t","u","v","w","x","y","z","i_acute","e_acute">>
Whitespace == {" ", "\t", "\n"}

LowerChar(ch) ==
    IF \E i \in 1..Len(UpperChars) : UpperChars[i] = ch
    THEN LowerChars[CHOOSE i \in 1..Len(UpperChars) : UpperChars[i] = ch]
    ELSE ch

\* str.lower()
Lower(s) == [i \in 1..Len(s) |-> LowerChar(s[i])]

RECURSIVE LStrip(_)
LStrip(s) == IF s # <<>> /\ Head(s) \in Whitespace THEN LStrip(Tail(s)) ELSE s

RECURSIVE RStrip(_)
RStrip(s) ==
    IF s # <<>> /\ s[Len(s)] \in Whitespace THEN RStrip(SubSeq(s, 1, Len(s) - 1)) ELSE s

\* str.strip()
Strip(s) == RStrip(LStrip(s))

\* sub in s
Contains(s, sub) ==
    \E i \in 1..(Len(s) - Len(sub) + 1) : SubSeq(s, i, i + Len(sub) - 1) = sub

\* s[:n]
Prefix(s, n) == SubSeq(s, 1, IF Len(s) < n THEN Len(s) ELSE n)

----------------------------------------------------------------------------
(* Words *)

w_menu == <<"m","e","n","u">>
w_menu_acc == <<"m","e","n","u_acute">>
w_start == <<"s","t","a","r","t">>
w_bot == <<"b","o","t">>
w_volver == <<"v","o","l","v","e","r">>
w_inicio == <<"i","n","i","c","i","o">>
w_hola == <<"h","o","l","a">>
w_hi == <<"h","i">>
w_hello == <<"h","e","l","l","o">>
w_cancelar == <<"c","a","n","c","e","l","a","r">>
w_salir == <<"s","a","l","i","r">>
w_basta == <<"b","a","s","t","a">>
w_chau == <<"c","h","a","u">>
w_velocidad == <<"v","e","l","o","c","i","d","a","d">>
w_rocket == <<"r","o","c","k","e","t">>
w_envios == <<"e","n","v","i_acute","o","s">>
w_ya == <<"y","a">>
w_fuego == <<"f","u","e","g","o">>
w_fire == <<"E_fire">>
Unknown == <<"U","n","k","n","o","w","n">>

\* bot.py:642, 668, 828
keywords == {w_menu, w_start, w_bot, w_volver, w_inicio}
cancel_keywords == {w_cancelar, w_salir, w_menu, w_basta, w_chau, w_volver}
stop_words_greetings == {w_hola, w_start, w_hi, w_hello, w_menu_acc, w_menu}

----------------------------------------------------------------------------
(* The session store *)

Statuses == {"bot", "human", "menu_mode",
             "waiting_mechanic_priority", "waiting_mechanic_name",
             "waiting_seller_name", "waiting_seller_location", "waiting_seller_logistics",
             "waiting_buyer_location", "waiting_buyer_urgency"}
SurveyStatuses == Statuses \ {"bot", "human", "menu_mode"}

NoRow == [exists |-> FALSE]
NoMeta == [priority |-> "none", shop_name |-> <<>>, location |-> <<>>,
           logistics |-> "none", urgency |-> <<>>]

\* the inserted row already carries a user kind
NewUser_mechanic(user_name, t) ==
    [exists |-> TRUE, name |-> user_name, status |-> "bot", user_type |-> "mechanic",
     last_active_at |-> t, location |-> <<>>, metadata |-> NoMeta, topic |-> FALSE]

\* the row inserted by webhook for an unseen phone (bot.py:587-594)
NewUser(user_name, t) ==
    [exists |-> TRUE, name |-> user_name, status |-> "bot", user_type |-> "unknown",
     last_active_at |-> t, location |-> <<>>, metadata |-> NoMeta, topic |-> FALSE]

\* dict.update / partial update of a row: only the given columns change
Merge(row, f) == [k \in DOMAIN row |-> IF k \in DOMAIN f THEN f[k] ELSE row[k]]

Msg(tag, arg) == [tag |-> tag, arg |-> arg]
Btn(base, arg) == [base |-> base, arg |-> arg]

(* The running delivery: the store as written so far, what was sent so far, *)
(* and the choices the environment makes for this delivery.  failAt is the  *)
(* number of the store call of the delivery that raises (0: none does),     *)
(* calls counts the store calls made, waDown tells that the primary channel *)
(* refuses every message, out lists the sends tried on the primary channel. *)
NewCtx(us, ids, t, tgFrom, rows, vehFound) ==
    [users |-> us, ids |-> ids, now |-> t, since |-> human_since,
     tgFrom |-> tgFrom, rows |-> rows, vehFound |-> vehFound,
     failAt |-> 0, calls |-> 0, waDown |-> FALSE,
     attempts |-> 0, writes |-> 0, ctl |-> "continue",
     status |-> "-", user_type |-> "-", created |-> FALSE, timed_out |-> FALSE,
     wa |-> <<>>, out |-> <<>>, tg |-> <<>>, an |-> <<>>, srch |-> <<>>, trace |-> <<>>]

\* the environment of a delivery in which a store call or the channel fails
Faulty(c, failAt, waDown) == [c EXCEPT !.failAt = failAt, !.waDown = waDown]

\* an exception is on its way out of the handler: nothing else runs
Raised(c) == c.ctl = "raise"

\* the next call to the store raises
Fails(c) == c.calls + 1 = c.failAt

\* try: ... except Exception: an exception raised between c0 and c1 ends there
Try(c0, c1) == IF ~Raised(c0) /\ Raised(c1) THEN [c1 EXCEPT !.ctl = "continue"] ELSE c1

\* supabase.table("users").update(f).eq("phone", phone).execute()
\* (since records, for the history variable, when the status becomes human)
db_update(c, phone, f) ==
    IF Raised(c) THEN c
    ELSE IF Fails(c) THEN [c EXCEPT !.calls = @ + 1, !.ctl = "raise"]
    ELSE
    [c EXCEPT !.users[phone] = IF @.exists THEN Merge(@, f) ELSE @,
              !.writes = @ + 1,
              !.calls = @ + 1,
              !.since[phone] = IF /\ c.users[phone].exists
                                  /\ "status" \in DOMAIN f
                                  /\ f.status = "human"
                                  /\ c.users[phone].status # "human"
                               THEN c.now ELSE @]

\* bot.py: log_to_db / log_user_event (the analytics "logs" table)
log_to_db(c, phone, action_type, content) ==
    IF Raised(c) THEN c
    ELSE IF Fails(c) THEN [c EXCEPT !.calls = @ + 1]
    ELSE [c EXCEPT !.calls = @ + 1,
                   !.an = Append(@, [phone |-> phone, action_type |-> action_type,
                                     content |-> Prefix(content, 200)])]

\* bot.py: update_user_metadata (read, merge, write back)
update_user_metadata(c, phone, updates) ==
    IF Raised(c) THEN c
    ELSE IF Fails(c) \/ ~c.users[phone].exists THEN [c EXCEPT !.calls = @ + 1]
    ELSE Try(c, db_update([c EXCEPT !.calls = @ + 1], phone,
                          [metadata |-> Merge(c.users[phone].metadata, updates)]))

\* telegram_crm.py: get_or_create_topic.  A row that has a topic is left
\* alone.  Otherwise a forum topic is created (the attempt fails while
\* Telegram is unavailable) and the row is upserted with the topic id,
\* the given name, status "bot" and last_active_at now().
get_or_create_topic(c, phone, user_name) ==
    LET row == c.users[phone] IN
    IF Raised(c) \/ (row.exists /\ row.topic) THEN c
    ELSE IF c.attempts + 1 < c.tgFrom THEN [c EXCEPT !.attempts = @ + 1]
    ELSE LET user_data == [name |-> user_name, topic |-> TRUE, status |-> "bot",
                           last_active_at |-> c.now]
         IN [c EXCEPT !.attempts = @ + 1,
                      !.writes = @ + 1,
                      !.users[phone] = IF row.exists THEN Merge(row, user_data)
                                       ELSE Merge(NewUser(user_name, c.now), user_data)]

\* telegram_crm.py: send_log_to_admin: nothing is sent when no topic could be
\* found or created
send_to_topic(c, phone, text, priority) ==
    IF ~Raised(c) /\ c.users[phone].exists /\ c.users[phone].topic
    THEN [c EXCEPT !.tg = Append(@, [phone |-> phone, text |-> text, priority |-> priority])]
    ELSE c

send_log_to_admin(c, phone, text, priority) ==
    send_to_topic(get_or_create_topic(c, phone, Unknown), phone, text, priority)

\* one send on the primary channel: the message arrives unless the channel
\* refuses it (whatsapp.py:60-65, 97-100, 136-139 print the error)
PrimarySend(c, via, m) ==
    [c EXCEPT !.wa = IF c.waDown THEN @ ELSE Append(@, m),
              !.out = Append(@, [via |-> via, phone |-> m.phone, text |-> m.text])]

\* whatsapp.py: send_whatsapp_message, awaited by the handler itself: the
\* function is a plain def that returns None once the message was posted,
\* and the await of None raises TypeError
send_whatsapp_message(c, phone, text) ==
    IF Raised(c) THEN c
    ELSE [PrimarySend(c, "direct", [phone |-> phone, kind |-> "text", text |-> text,
                             buttons |-> <<>>, rows |-> <<>>])
                   EXCEPT !.ctl = "raise"]

\* the list is cut after 9 rows
send_interactive_list_nine(phone, text, rows) ==
    [phone |-> phone, kind |-> "list", text |-> text,
     buttons |-> <<>>, rows |-> Prefix(rows, 9)]

\* whatsapp.py: send_interactive_list, rows[:10]
send_interactive_list(phone, text, rows) ==
    [phone |-> phone, kind |-> "list", text |-> text,
     buttons |-> <<>>, rows |-> Prefix(rows, LIST_ROW_CAP)]

\* only two buttons are sent
send_interactive_buttons_two(phone, text, buttons) ==
    [phone |-> phone, kind |-> "buttons", text |-> text,
     buttons |-> Prefix(buttons, 2), rows |-> <<>>]

\* whatsapp.py: send_interactive_buttons, buttons[:3]
send_interactive_buttons(phone, text, buttons) ==
    [phone |-> phone, kind |-> "buttons", text |-> text,
     buttons |-> Prefix(buttons, BUTTON_CAP), rows |-> <<>>]

\* reply_and_mirror with both sends in one try-less sequence: the exception of
\* the first send leaves the function before the mirror
reply_and_mirror_chained(c, phone, text, buttons, list_rows) ==
    LET m == IF buttons # <<>>
             THEN send_interactive_buttons(phone, text, buttons)
             ELSE IF list_rows # <<>>
             THEN send_interactive_list(phone, text, list_rows)
             ELSE [phone |-> phone, kind |-> "text", text |-> text,
                   buttons |-> <<>>, rows |-> <<>>]
    IN IF Raised(c) THEN c
       ELSE send_log_to_admin(
                [PrimarySend(c, "reply", m) EXCEPT !.ctl = "raise"],
                phone,
                [tag |-> "mirror", arg |-> text,
                 nbuttons |-> Len(buttons), nrows |-> Len(list_rows)],
                "log")

\* bot.py: reply_and_mirror: buttons, else list, else plain text on the primary
\* channel, then the mirror log, each in a try of its own (the TypeError of
\* the awaited send ends in the first)
reply_and_mirror(c, phone, text, buttons, list_rows) ==
    LET m == IF buttons # <<>>
             THEN send_interactive_buttons(phone, text, buttons)
             ELSE IF list_rows # <<>>
             THEN send_interactive_list(phone, text, list_rows)
             ELSE [phone |-> phone, kind |-> "text", text |-> text,
                   buttons |-> <<>>, rows |-> <<>>]
    IN IF Raised(c) THEN c
       ELSE Try(c, send_log_to_admin(
                       Try(c, [PrimarySend(c, "reply", m) EXCEPT !.ctl = "raise"]),
                       phone,
                       [tag |-> "mirror", arg |-> text,
                        nbuttons |-> Len(buttons), nrows |-> Len(list_rows)],
                       "log"))

----------------------------------------------------------------------------
(* The catalog as the search sees it *)

b_ford == <<"F","o","r","d">>
b_fiat == <<"F","i","a","t">>
m_ka == <<"K","a">>
m_fiesta == <<"F","i","e","s","t","a">>
m_uno == <<"U","n","o">>

DigitChars == <<"0","1","2","3","4","5","6","7","8","9">>
\* str(n)
RECURSIVE Str(_)
Str(n) == IF n < 10 THEN <<DigitChars[n + 1]>> ELSE Str(n \div 10) \o <<DigitChars[(n % 10) + 1]>>
\* str.isdigit()
IsDigit(s) == s # <<>> /\ \A i \in 1..Len(s) : \E d \in 1..10 : DigitChars[d] = s[i]

Veh(id, brand, model) == [vehicle_id |-> id, brand_car |-> brand, model |-> model]

\* code-point order of the characters that occur in model names
CodeOrder == <<" ","0","1","2","3","4","5","6","7","8","9">> \o UpperChars \o LowerChars
Ord(ch) == CHOOSE i \in 1..Len(CodeOrder) : CodeOrder[i] = ch

RECURSIVE LexLess(_, _)
LexLess(a, b) ==
    IF a = <<>> THEN b # <<>>
    ELSE IF b = <<>> THEN FALSE
    ELSE IF Head(a) = Head(b) THEN LexLess(Tail(a), Tail(b))
    ELSE Ord(Head(a)) < Ord(Head(b))

\* sorted(list(set(...)))
RECURSIVE Sorted(_)
Sorted(S) ==
    IF S = {} THEN <<>>
    ELSE LET least == CHOOSE x \in S : \A y \in S \ {x} : LexLess(x, y)
         IN <<least>> \o Sorted(S \ {least})

----------------------------------------------------------------------------
(* The query parser, bot.py: parse_search_query *)

IsDigitChar(ch) == \E d \in 1..10 : DigitChars[d] = ch
DigitVal(ch) == (CHOOSE d \in 1..10 : DigitChars[d] = ch) - 1
\* int(s) of a string of digits
RECURSIVE Val(_)
Val(s) == IF s = <<>> THEN 0 ELSE 10 * Val(SubSeq(s, 1, Len(s) - 1)) + DigitVal(s[Len(s)])

\* the end of the run of digits that starts at position i
RECURSIVE DigitRunEnd(_, _)
DigitRunEnd(s, i) == IF i < Len(s) /\ IsDigitChar(s[i + 1]) THEN DigitRunEnd(s, i + 1) ELSE i

\* re.sub(r'(\d+),(\d+)', r'\1.\2', s): matches are found from left to right
\* and do not overlap; floor is the first position not yet consumed
RECURSIVE CommaToDot(_, _, _)
CommaToDot(s, i, floor) ==
    IF i >= Len(s) THEN s
    ELSE IF s[i] = "," /\ i - 1 >= floor /\ IsDigitChar(s[i - 1]) /\ IsDigitChar(s[i + 1])
    THEN CommaToDot([s EXCEPT ![i] = "."], DigitRunEnd(s, i + 1) + 1, DigitRunEnd(s, i + 1) + 1)
    ELSE CommaToDot(s, i + 1, floor)

\* s.replace(ch, '') for each ch of chars
RECURSIVE Remove(_, _)
Remove(s, chars) ==
    IF s = <<>> THEN <<>>
    ELSE IF Head(s) \in chars THEN Remove(Tail(s), chars)
    ELSE <<Head(s)>> \o Remove(Tail(s), chars)

\* s.replace(k, v), k not empty
RECURSIVE Replace(_, _, _)
Replace(s, k, v) ==
    IF Len(s) < Len(k) THEN s
    ELSE IF SubSeq(s, 1, Len(k)) = k THEN v \o Replace(SubSeq(s, Len(k) + 1, Len(s)), k, v)
    ELSE <<Head(s)>> \o Replace(Tail(s), k, v)

\* s.split(): cur is the token being read
RECURSIVE SplitFrom(_, _)
SplitFrom(s, cur) ==
    IF s = <<>> THEN (IF cur = <<>> THEN <<>> ELSE <<cur>>)
    ELSE IF Head(s) \in Whitespace
    THEN (IF cur = <<>> THEN <<>> ELSE <<cur>>) \o SplitFrom(Tail(s), <<>>)
    ELSE SplitFrom(Tail(s), Append(cur, Head(s)))
Split(s) == SplitFrom(s, <<>>)

w_volkswagen == <<"v","o","l","k","s","w","a","g","e","n">>
w_mercedes == <<"m","e","r","c","e","d","e","s">>
w_mercedes_benz == w_mercedes \o <<"-","b","e","n","z">>
w_s10 == <<"s","1","0">>

\* bot.py:129
STOP_WORDS ==
    {<<"q","u","i","e","r","o">>, <<"b","u","s","c","o">>,
     <<"n","e","c","e","s","i","t","o">>, <<"p","a","r","a">>, <<"e","l">>, <<"l","a">>,
     <<"u","n">>, <<"u","n","a">>, <<"a","u","t","o">>, <<"c","o","c","h","e">>,
     <<"c","a","m","i","o","n","e","t","a">>, <<"f","i","l","t","r","o">>,
     <<"f","i","l","t","r","o","s">>, <<"m","o","t","o","r">>}

\* bot.py:131-137, in the order of the dict
SYNONYMS ==
    << <<<<"v","w">>, w_volkswagen>>,
       <<<<"v","o","l","k","s">>, w_volkswagen>>,
       <<<<"c","h","e","v","y">>, <<"c","h","e","v","r","o","l","e","t">>>>,
       <<<<"m","b">>, w_mercedes_benz>>,
       <<w_mercedes, w_mercedes_benz>>,
       <<<<"c","i","t","r","o","e","n">>, <<"c","i","t","r","o","e_diaeresis","n">>>>,
       <<<<"s","-","1","0">>, w_s10>>,
       <<<<"s"," ","1","0">>, w_s10>> >>

\* bot.py:139
NUMERIC_MODEL_WHITELIST ==
    {<<"2","0","6">>, <<"2","0","7">>, <<"2","0","8">>, <<"3","0","6">>, <<"3","0","7">>,
     <<"3","0","8">>, <<"4","0","5">>, <<"4","0","8">>, <<"5","0","4">>, <<"5","0","5">>,
     <<"3","0","0","8">>, <<"5","0","0","8">>, <<"5","0","0">>,
     <<"f","1","0","0">>, <<"f","1","5","0">>,
     <<"r","a","m","1","5","0","0">>, <<"r","a","m","2","5","0","0">>}

\* bot.py:156-159: every synonym key is replaced in the whole text, in turn
RECURSIVE ApplySynonyms(_, _)
ApplySynonyms(s, i) ==
    IF i > Len(SYNONYMS) THEN s
    ELSE ApplySynonyms(Replace(s, SYNONYMS[i][1], SYNONYMS[i][2]), i + 1)

\* bot.py:150-161: the tokens of a text
Tokens(text) ==
    Split(ApplySynonyms(Remove(CommaToDot(Lower(text), 2, 1), {",", "(", ")", "'"}), 1))

YEAR_MIN == 1950
YEAR_MAX == 2030
NoYear == 0             \* year_filter is None
NoEngine == <<>>        \* engine_filter is None

\* the first year of the range is left out
IsYear_exclusive(token) ==
    IsDigit(token) /\ Len(token) = 4 /\ YEAR_MIN < Val(token) /\ Val(token) <= YEAR_MAX

\* bot.py:181-185
IsYear(token) ==
    IsDigit(token) /\ Len(token) = 4 /\ YEAR_MIN <= Val(token) /\ Val(token) <= YEAR_MAX

\* float(s) of a string of digits with at most one point: its integer part
\* and its fraction digits (ok is false where float raises ValueError)
FloatParts(s) ==
    LET dots == {i \in 1..Len(s) : s[i] = "."}
        dot == IF dots = {} THEN Len(s) + 1 ELSE CHOOSE i \in dots : TRUE
    IN [ok |-> /\ Cardinality(dots) <= 1
               /\ \A i \in (1..Len(s)) \ dots : IsDigitChar(s[i])
               /\ Len(s) > Cardinality(dots),
        int |-> SubSeq(s, 1, dot - 1),
        frac |-> SubSeq(s, dot + 1, Len(s)),
        point |-> dots # {}]

\* 0.5 <= float(s) <= 16.0
InEngineRange(f) ==
    /\ f.ok
    /\ Val(f.int) >= 1 \/ (f.frac # <<>> /\ DigitVal(f.frac[1]) >= 5)
    /\ Val(f.int) < 16 \/ (Val(f.int) = 16 /\ \A i \in 1..Len(f.frac) : f.frac[i] = "0")

\* bot.py:190-198: the token without its liter marker
TokenClean(token) ==
    IF token # <<>> /\ token[Len(token)] = "l" THEN SubSeq(token, 1, Len(token) - 1) ELSE token

\* a liter marker alone makes a displacement
IsEngine_any_liter(token) ==
    /\ Len(token) <= 5
    /\ \/ TokenClean(token) # token
       \/ InEngineRange(FloatParts(TokenClean(token)))

\* bot.py:191-215
IsEngine(token) ==
    /\ Len(token) <= 5
    /\ \/ Contains(TokenClean(token), <<".">>)
       \/ TokenClean(token) # token
       \/ IsDigit(TokenClean(token))
    /\ InEngineRange(FloatParts(TokenClean(token)))

\* bot.py:207-214: the displacement as it is stored
EngineNorm(token) ==
    IF Contains(TokenClean(token), <<".">>) THEN TokenClean(token)
    ELSE TokenClean(token) \o <<".","0">>

\* bot.py:163-167
EmptyQuery == [text_tokens |-> <<>>, year_filter |-> NoYear, engine_filter |-> NoEngine]

\* the whitelisted models are skipped like stop words
Classify_whitelist_dropped(token, parsed) ==
    IF token \in STOP_WORDS \/ token \in NUMERIC_MODEL_WHITELIST THEN parsed
    ELSE IF IsYear(token) THEN [parsed EXCEPT !.year_filter = Val(token)]
    ELSE IF IsEngine(token) THEN [parsed EXCEPT !.engine_filter = EngineNorm(token)]
    ELSE [parsed EXCEPT !.text_tokens = Append(@, token)]

\* bot.py:169-220, the body of the loop over the tokens
Classify(token, parsed) ==
    IF token \in STOP_WORDS THEN parsed
    ELSE IF token \in NUMERIC_MODEL_WHITELIST
    THEN [parsed EXCEPT !.text_tokens = Append(@, token)]
    ELSE IF IsYear(token) THEN [parsed EXCEPT !.year_filter = Val(token)]
    ELSE IF IsEngine(token) THEN [parsed EXCEPT !.engine_filter = EngineNorm(token)]
    ELSE [parsed EXCEPT !.text_tokens = Append(@, token)]

RECURSIVE ParseTokens(_, _)
ParseTokens(tokens, parsed) ==
    IF tokens = <<>> THEN parsed
    ELSE ParseTokens(Tail(tokens), Classify(Head(tokens), parsed))

\* bot.py:141-222 (the empty dict returned for an empty text reads, with
\* .get, as the empty query)
parse_search_query(text) ==
    IF text = <<>> THEN EmptyQuery ELSE ParseTokens(Tokens(text), EmptyQuery)

----------------------------------------------------------------------------
(* The filters of the search, bot.py: to_accent_regex, search_vehicle *)

\* bot.py:229-232: the characters a character of the token stands for
mapping(ch) ==
    CASE ch = "a" -> {"a", "a_acute"}
      [] ch = "e" -> {"e", "e_acute"}
      [] ch = "i" -> {"i", "i_acute"}
      [] ch = "o" -> {"o", "o_acute"}
      [] ch = "u" -> {"u", "u_acute", "u_diaeresis"}
      [] ch = "n" -> {"n", "n_tilde"}
      [] OTHER -> {ch}

\* bot.py:224-233: the pattern, one set of characters for each character
to_accent_regex(text) == [i \in 1..Len(text) |-> mapping(text[i])]

\* an element of the pattern against a character of the column, without
\* regard to case; a point in the token is the regular expression's wildcard
Accepts(p, ch) == p = {"."} \/ LowerChar(ch) \in p

\* the characters the regular expression counts as part of a word
IsWordChar(ch) ==
    \/ \E i \in 1..Len(LowerChars) : LowerChars[i] = LowerChar(ch)
    \/ IsDigitChar(ch)
    \/ ch \in {"_", "a_acute", "o_acute", "u_acute", "u_diaeresis", "n_tilde", "e_diaeresis"}

\* \y at the position before s[i]
Boundary(s, i) ==
    (i - 1 >= 1 /\ IsWordChar(s[i - 1])) # (i <= Len(s) /\ IsWordChar(s[i]))

\* the pattern matches the characters of s that start at position i
MatchAt(s, pattern, i) ==
    \A k \in 1..Len(pattern) : Accepts(pattern[k], s[i + k - 1])

\* whole words are for tokens of at most two characters only
IsLong_three(safe_token) == Len(safe_token) > 2

\* bot.py:287
IsLong(safe_token) == Len(safe_token) > 3

\* bot.py:280-297, col.imatch.pattern for one column
imatch(col, safe_token) ==
    \E i \in 1..(Len(col) - Len(safe_token) + 1) :
        /\ MatchAt(col, to_accent_regex(safe_token), i)
        /\ IsLong(safe_token) \/ (Boundary(col, i) /\ Boundary(col, i + Len(safe_token)))

\* bot.py:273-276: the columns searched (the rows of the model carry data
\* in the first two only)
target_cols(v) == <<v.brand_car, v.model>>

\* bot.py:278-297: the token matches at least one column
MatchesToken(v, token) ==
    \E k \in 1..Len(target_cols(v)) : imatch(target_cols(v)[k], Remove(token, {"'", "%"}))

\* bot.py:247-260: the year is in the row's range, or in the model's name
MatchesYear(v, y) ==
    \/ v.year_from <= y /\ (v.year_to >= y \/ v.year_to = NoYear)
    \/ Contains(v.model, Str(y))

\* a decimal without the zeros at its end
RECURSIVE StripZeros(_)
StripZeros(s) ==
    IF s # <<>> /\ s[Len(s)] = "0" THEN StripZeros(SubSeq(s, 1, Len(s) - 1)) ELSE s

\* bot.py:262-266: .eq('engine_disp_l', e) on a numeric column
MatchesEngine(v, e) ==
    /\ v.engine_disp_l # NoEngine
    /\ Val(FloatParts(v.engine_disp_l).int) = Val(FloatParts(e).int)
    /\ StripZeros(FloatParts(v.engine_disp_l).frac) = StripZeros(FloatParts(e).frac)

\* bot.py:240-299: the row passes every filter of the query
Selected(v, q) ==
    /\ q.year_filter # NoYear => MatchesYear(v, q.year_filter)
    /\ q.engine_filter # NoEngine => MatchesEngine(v, q.engine_filter)
    /\ \A j \in 1..Len(q.text_tokens) : MatchesToken(v, q.text_tokens[j])

\* the rows of the table that the query selects, in the table's order
RECURSIVE Select(_, _)
Select(table, q) ==
    IF table = <<>> THEN <<>>
    ELSE (IF Selected(Head(table), q) THEN <<Head(table)>> ELSE <<>>) \o Select(Tail(table), q)

----------------------------------------------------------------------------
(* Result pages *)

\* the pages search_vehicle may return for a query
rows_none == <<>>
rows_one == <<Veh(1, b_ford, m_ka)>>
rows_single_brand == [i \in 1..11 |-> Veh(i, b_ford, IF i % 2 = 0 THEN m_ka ELSE m_fiesta)]
rows_mixed == [i \in 1..11 |-> IF i % 2 = 0 THEN Veh(i, b_ford, m_ka) ELSE Veh(i, b_fiat, m_uno)]
ResultSets == {rows_none, rows_one, rows_single_brand, rows_mixed}

\* twelve models of one brand
ford_models ==
    <<m_ka, m_fiesta, <<"F","o","c","u","s">>, <<"M","o","n","d","e","o">>,
      <<"R","a","n","g","e","r">>, <<"E","c","o","S","p","o","r","t">>,
      <<"K","u","g","a">>, <<"E","s","c","o","r","t">>, <<"F","a","l","c","o","n">>,
      <<"S","i","e","r","r","a">>, <<"T","a","u","n","u","s">>, <<"O","r","i","o","n">>>>

\* ten rows, the most a selectable list shows
rows_ten == [i \in 1..10 |-> Veh(100 + i, b_ford, m_ka)]
\* twelve rows of one model
rows_one_model == [i \in 1..12 |-> Veh(i, b_ford, m_ka)]
\* eleven rows of one brand with ten distinct models
rows_ten_models == [i \in 1..11 |-> Veh(i, b_ford, ford_models[IF i > 10 THEN 1 ELSE i])]
\* twelve rows of one brand with two distinct models
rows_twelve_pairs == [i \in 1..12 |-> Veh(i, b_ford, IF i % 2 = 0 THEN m_ka ELSE m_fiesta)]
\* twelve rows, the twelve models of one brand
rows_twelve_fords == [i \in 1..12 |-> Veh(i, b_ford, ford_models[i])]
\* sixteen matches: the model, or the brand, of the last one occurs nowhere
\* in the first fifteen
rows_late_model ==
    [i \in 1..16 |-> Veh(i, b_ford, IF i = 16 THEN ford_models[3]
                                    ELSE IF i % 2 = 0 THEN m_ka ELSE m_fiesta)]
rows_late_brand ==
    [i \in 1..16 |-> IF i = 16 THEN Veh(i, b_fiat, m_uno)
                     ELSE Veh(i, b_ford, IF i % 2 = 0 THEN m_ka ELSE m_fiesta)]

\* bot.py:301, query.limit(limit): the first rows of the matches
search_vehicle(matches, limit) == Prefix(matches, limit)

\* ten rows already count as too many
TooMany_ge(vehicles) == Len(vehicles) >= LIST_OVERFLOW

\* bot.py:336
TooMany(vehicles) == Len(vehicles) > LIST_OVERFLOW

\* any number of models goes into the selector
FewModels_any(unique_models) == 2 <= Len(unique_models)

\* bot.py:344
FewModels(unique_models) == 2 <= Len(unique_models) /\ Len(unique_models) <= 10

\* the entry searches the model alone
model_row_model_only(brand, m) ==
    [id |-> Btn("cmd_search_", m), title |-> Prefix(m, 24)]

\* bot.py:350-354, the entry of the model selector for a model
model_row(brand, m) ==
    [id |-> Btn("cmd_search_", brand \o <<" ">> \o m), title |-> Prefix(m, 24)]

\* bot.py:389-404: the title of a vehicle that has no engine data
w_ver_detalles == <<"V","e","r"," ","D","e","t","a","l","l","e","s">>

\* bot.py:313-438, the search and the reply to its result
search_and_reply(c, chat_id, text_body, status) ==
    LET c0 == [c EXCEPT !.calls = @ + 1,
                        !.srch = Append(@, [query |-> text_body, status |-> status,
                                            q_data |-> parse_search_query(text_body),
                                            matches |-> c.rows,
                                            vehicles |-> search_vehicle(c.rows, PAGE_LIMIT)])]
        vehicles == search_vehicle(c.rows, PAGE_LIMIT)
        unique_brands == {vehicles[i].brand_car : i \in 1..Len(vehicles)}
        unique_models == Sorted({vehicles[i].model : i \in 1..Len(vehicles)})
    IN
    IF vehicles = <<>> THEN
        IF status = "menu_mode" THEN
            LET c1 == send_log_to_admin(c0, chat_id, Msg("feedback", text_body), "high")
                c2 == reply_and_mirror(c1, chat_id, Msg("feedback_thanks", <<>>),
                                       <<Btn("btn_search_error", <<>>)>>, <<>>)
            IN db_update(c2, chat_id, [status |-> "bot"])
        ELSE
            LET c1 == log_to_db(c0, chat_id, "search_empty", text_body)
            IN reply_and_mirror(c1, chat_id, Msg("not_found", text_body),
                                <<Btn("btn_add_missing_", Prefix(text_body, 20)),
                                  Btn("btn_human_help", <<>>),
                                  Btn("btn_search_retry", <<>>)>>, <<>>)
    ELSE IF TooMany(vehicles) THEN
        IF Cardinality(unique_brands) = 1 /\ Len(unique_models) > 1 THEN
            IF FewModels(unique_models) THEN
                LET brand == CHOOSE b \in unique_brands : TRUE
                    list_rows == [i \in 1..Len(unique_models) |->
                                    model_row(brand, unique_models[i])]
                IN reply_and_mirror(c0, chat_id, Msg("pick_model", brand), <<>>, list_rows)
            ELSE
                reply_and_mirror(c0, chat_id, Msg("write_model", <<>>), <<>>, <<>>)
        ELSE
            reply_and_mirror(c0, chat_id, Msg("narrow_search", <<>>), <<>>, <<>>)
    ELSE
        LET list_rows == [i \in 1..Len(vehicles) |->
                            [id |-> Btn("", Str(vehicles[i].vehicle_id)),
                             title |-> w_ver_detalles]]
            c1 == reply_and_mirror(c0, chat_id, Msg("found_options", <<>>), <<>>, list_rows)
        IN log_to_db(c1, chat_id, "search_found", text_body)

\* bot.py:440-442: the handler of whatever the search raised
search_failed(c, chat_id) ==
    IF Raised(c)
    THEN send_whatsapp_message([c EXCEPT !.ctl = "continue"], chat_id, Msg("search_error", <<>>))
    ELSE c

\* bot.py:304-442: process_search_request
process_search_request(c, chat_id, text_body, status) ==
    IF Raised(c) THEN c
    ELSE IF Fails(c)
    THEN search_failed([c EXCEPT !.calls = @ + 1, !.ctl = "raise"], chat_id)
    ELSE search_failed(search_and_reply(c, chat_id, text_body, status), chat_id)

----------------------------------------------------------------------------
(* Inbound events *)

\* bot.py: get_message_content
get_message_content(msg) ==
    IF msg.type = "text" THEN msg.body
    ELSE IF msg.type = "interactive" /\ msg.itype \in {"button_reply", "list_reply"} THEN msg.title
    ELSE <<>>

\* the threshold itself counts as stale
IsStale_inclusive(c, msg) == msg.ts # NoTs /\ c.now - msg.ts >= STALE_SECONDS

\* bot.py:537-549, the stale filter
IsStale(c, msg) == msg.ts # NoTs /\ c.now - msg.ts > STALE_SECONDS

\* a deque without maxlen
DequeAppend_unbounded(ids, id) == Append(ids, id)

\* deque.append with maxlen
DequeAppend(ids, id) ==
    LET a == Append(ids, id) IN IF Len(a) > DEDUP_MAXLEN THEN Tail(a) ELSE a

\* the check looks at the newest identifier only
InDeque_newest(ids, id) == ids # <<>> /\ ids[Len(ids)] = id

InDeque(ids, id) == \E i \in 1..Len(ids) : ids[i] = id

\* the timeout is written to the store, the handler goes on with the status
\* it had loaded
SessionManagement_still_human(c, msg) ==
    LET chat_id == msg.from
        user == c.users[chat_id]
        c0 == [c EXCEPT !.calls = @ + 1]
    IN
    IF Fails(c) THEN [c0 EXCEPT !.ctl = "raise"]                \* the lookup, bot.py:580
    ELSE IF ~user.exists THEN
        IF Fails(c0) THEN [c0 EXCEPT !.calls = @ + 1, !.ctl = "raise"]   \* the insert, bot.py:594
        ELSE
        LET c1 == [c0 EXCEPT !.users[chat_id] = NewUser(msg.name, c.now),
                             !.writes = @ + 1, !.calls = @ + 1]
            c2 == get_or_create_topic(c1, chat_id, msg.name)
        IN [c2 EXCEPT !.status = "bot", !.created = TRUE, !.user_type = "unknown"]
    ELSE
        LET due == user.status = "human" /\ (c.now - user.last_active_at) > TIMEOUT_SECONDS
            \* bot.py:604-613: an update that raises is caught, the status stays
            expired == due /\ ~Fails(c0)
            c1 == IF due
                  THEN Try(c0, send_log_to_admin(
                                   db_update(c0, chat_id,
                                             [status |-> "bot", last_active_at |-> c.now]),
                                   chat_id, Msg("session_expired", <<>>), "log"))
                  ELSE c0
            c2 == db_update(c1, chat_id, [last_active_at |-> c.now])
        IN [c2 EXCEPT !.status = user.status,
                      !.timed_out = expired, !.user_type = user.user_type]

\* bot.py:577-620: load or create the session, apply the human timeout,
\* refresh last_active_at; the local variable status is left in c.status
SessionManagement(c, msg) ==
    LET chat_id == msg.from
        user == c.users[chat_id]
        c0 == [c EXCEPT !.calls = @ + 1]
    IN
    IF Fails(c) THEN [c0 EXCEPT !.ctl = "raise"]                \* the lookup, bot.py:580
    ELSE IF ~user.exists THEN
        IF Fails(c0) THEN [c0 EXCEPT !.calls = @ + 1, !.ctl = "raise"]   \* the insert, bot.py:594
        ELSE
        LET c1 == [c0 EXCEPT !.users[chat_id] = NewUser(msg.name, c.now),
                             !.writes = @ + 1, !.calls = @ + 1]
            c2 == get_or_create_topic(c1, chat_id, msg.name)
        IN [c2 EXCEPT !.status = "bot", !.created = TRUE, !.user_type = "unknown"]
    ELSE
        LET due == user.status = "human" /\ (c.now - user.last_active_at) > TIMEOUT_SECONDS
            \* bot.py:604-613: an update that raises is caught, the status stays
            expired == due /\ ~Fails(c0)
            c1 == IF due
                  THEN Try(c0, send_log_to_admin(
                                   db_update(c0, chat_id,
                                             [status |-> "bot", last_active_at |-> c.now]),
                                   chat_id, Msg("session_expired", <<>>), "log"))
                  ELSE c0
            c2 == db_update(c1, chat_id, [last_active_at |-> c.now])
        IN [c2 EXCEPT !.status = IF expired THEN "bot" ELSE user.status,
                      !.timed_out = expired, !.user_type = user.user_type]

\* every event of a human session is forwarded; no keyword leaves the mode
HumanMode_forward_all(c, msg) ==
    send_log_to_admin(c, msg.from,
                      Msg("forward", IF msg.type = "text" THEN msg.body ELSE <<>>), "log")

\* bot.py:624-657
HumanMode(c, msg) ==
    LET chat_id == msg.from
        text_body == IF msg.type = "text" THEN msg.body ELSE <<>>
    IN
    IF msg.type = "interactive" /\ msg.itype = "button_reply" /\ msg.id = Btn("btn_return_bot", <<>>)
    THEN LET c1 == db_update(c, chat_id, [status |-> "bot"])
             c2 == reply_and_mirror(c1, chat_id, Msg("WELCOME_TEXT", <<>>), <<>>, <<>>)
         IN send_log_to_admin(c2, chat_id, Msg("returned_to_bot", <<>>), "log")
    ELSE IF text_body # <<>> /\ Strip(Lower(text_body)) \in keywords
    THEN LET c1 == db_update(c, chat_id, [status |-> "bot"])
             c2 == reply_and_mirror(c1, chat_id, Msg("WELCOME_TEXT", <<>>), <<>>, <<>>)
         IN send_log_to_admin(c2, chat_id, Msg("keyword_bot_active", text_body), "log")
    ELSE IF text_body # <<>>
    THEN send_log_to_admin(c, chat_id, Msg("forward", text_body), "log")
    ELSE send_log_to_admin(c, chat_id, Msg("forward_media", <<>>), "log")

\* bot.py:663-675
IsCancel(msg) ==
    LET input_val == Strip(get_message_content(msg))
        is_cancel_btn == msg.type = "interactive" /\ msg.itype = "button_reply"
                         /\ msg.id = Btn("btn_cancel_survey", <<>>)
    IN Lower(input_val) \in cancel_keywords \/ is_cancel_btn

\* the cancel also clears the profile kind
GlobalCancel_unknown(c, msg) ==
    LET chat_id == msg.from
        c1 == db_update(c, chat_id, [status |-> "bot", user_type |-> "unknown"])
        c2 == send_log_to_admin(c1, chat_id, Msg("cancelled_survey", <<>>), "log")
    IN reply_and_mirror(c2, chat_id, Msg("SHORT_WELCOME", <<>>),
                        <<Btn("btn_search_error", <<>>)>>, <<>>)

GlobalCancel(c, msg) ==
    LET chat_id == msg.from
        c1 == db_update(c, chat_id, [status |-> "bot"])
        c2 == send_log_to_admin(c1, chat_id, Msg("cancelled_survey", <<>>), "log")
    IN reply_and_mirror(c2, chat_id, Msg("SHORT_WELCOME", <<>>),
                        <<Btn("btn_search_error", <<>>)>>, <<>>)

btn_cancel == Btn("btn_cancel_survey", <<>>)
btn_search == Btn("btn_search_error", <<>>)

\* the answer falls through to the text search
SurveyStep_search(c, msg, status, input_val) ==
    process_search_request(c, msg.from, input_val, status)

\* the answer is stored and the question is asked again
SurveyStep_repeat(c, msg, status, input_val) ==
    update_user_metadata(c, msg.from, [urgency |-> input_val])

\* bot.py:677-803, one survey step on a non-empty answer
SurveyStep(c, msg, status, input_val) ==
    LET chat_id == msg.from
        low == Lower(input_val)
    IN
    CASE status = "waiting_mechanic_priority" ->
            LET priority_val == IF Contains(low, w_velocidad) \/ Contains(low, w_rocket)
                                THEN "speed" ELSE "price"
                c1 == update_user_metadata(c, chat_id, [priority |-> priority_val])
                c2 == db_update(c1, chat_id, [status |-> "waiting_mechanic_name"])
            IN reply_and_mirror(c2, chat_id, Msg("ask_shop_name", <<>>), <<btn_cancel>>, <<>>)
      [] status = "waiting_mechanic_name" ->
            LET c1 == update_user_metadata(c, chat_id, [shop_name |-> input_val])
                c2 == db_update(c1, chat_id, [status |-> "bot", user_type |-> "mechanic",
                                              name |-> input_val])
                c3 == log_to_db(c2, chat_id, "lead_mechanic", input_val)
                c4 == send_log_to_admin(c3, chat_id, Msg("mechanic_registered", input_val), "high")
            IN reply_and_mirror(c4, chat_id, Msg("profile_saved", <<>>), <<btn_search>>, <<>>)
      [] status = "waiting_seller_name" ->
            LET c1 == update_user_metadata(c, chat_id, [shop_name |-> input_val])
                c2 == db_update(c1, chat_id, [status |-> "waiting_seller_location",
                                              name |-> input_val])
            IN reply_and_mirror(c2, chat_id, Msg("ask_seller_location", <<>>), <<btn_cancel>>, <<>>)
      [] status = "waiting_seller_location" ->
            LET c1 == update_user_metadata(c, chat_id, [location |-> input_val])
                c2 == db_update(c1, chat_id, [status |-> "waiting_seller_logistics",
                                              location |-> input_val])
            IN reply_and_mirror(c2, chat_id, Msg("ask_logistics", <<>>),
                                <<Btn("btn_logistics_ship", <<>>),
                                  Btn("btn_logistics_pickup", <<>>), btn_cancel>>, <<>>)
      [] status = "waiting_seller_logistics" ->
            LET logistics_val == IF Contains(low, w_envios) THEN "envios" ELSE "retiro"
                c1 == update_user_metadata(c, chat_id, [logistics |-> logistics_val])
                c2 == db_update(c1, chat_id, [status |-> "bot", user_type |-> "seller"])
                c3 == log_to_db(c2, chat_id, "lead_seller", <<>>)
                c4 == send_log_to_admin(c3, chat_id, Msg("seller_registered", <<>>), "high")
            IN reply_and_mirror(c4, chat_id, Msg("data_received", <<>>), <<btn_search>>, <<>>)
      [] status = "waiting_buyer_location" ->
            LET c1 == update_user_metadata(c, chat_id, [location |-> input_val])
                c2 == db_update(c1, chat_id, [location |-> input_val,
                                              status |-> "waiting_buyer_urgency"])
            IN reply_and_mirror(c2, chat_id, Msg("ask_urgency", <<>>),
                                <<Btn("btn_urgency_high", <<>>),
                                  Btn("btn_urgency_normal", <<>>), btn_cancel>>, <<>>)
      [] status = "waiting_buyer_urgency" ->
            LET is_urgent == Contains(low, w_ya) \/ Contains(low, w_fuego)
                             \/ Contains(input_val, w_fire)
                c1 == update_user_metadata(c, chat_id, [urgency |-> input_val])
                c2 == db_update(c1, chat_id, [status |-> "bot"])
                c3 == send_log_to_admin(c2, chat_id,
                                        Msg(IF is_urgent THEN "buyer_urgency" ELSE "buyer_inquiry",
                                            input_val),
                                        IF is_urgent THEN "high" ELSE "normal")
                c4 == log_to_db(c3, chat_id, "lead_buyer", input_val)
            IN reply_and_mirror(c4, chat_id,
                                Msg(IF is_urgent THEN "order_received_urgent" ELSE "order_received",
                                    <<>>),
                                <<btn_search>>, <<>>)
      [] OTHER -> c

\* bot.py: send_car_actions
send_car_actions(c, phone, vehicle_id) ==
    IF ~IsDigit(vehicle_id)
    THEN reply_and_mirror(c, phone, Msg("no_context", <<>>), <<>>, <<>>)
    ELSE IF Fails(c) \/ ~c.vehFound
    THEN reply_and_mirror([c EXCEPT !.calls = @ + 1], phone, Msg("menu_error", <<>>),
                          <<>>, <<>>)
    ELSE reply_and_mirror([c EXCEPT !.calls = @ + 1], phone, Msg("car_options", vehicle_id),
                          <<Btn("btn_buy_loc", vehicle_id), Btn("btn_menu_mech", vehicle_id),
                            btn_search>>, <<>>)

\* bot.py:827-833, the text of a bot-mode event: a greeting or a search
greeting_or_search(c, chat_id, text_body, status) ==
    IF Lower(text_body) \in stop_words_greetings
    THEN reply_and_mirror(c, chat_id, Msg("WELCOME_TEXT", <<>>), <<>>, <<>>)
    ELSE process_search_request(c, chat_id, text_body, status)

\* bot.py:864-905: the parts of the vehicle are read, then its card is sent
vehicle_card(c, chat_id, vid) ==
    IF Fails(c) THEN [c EXCEPT !.calls = @ + 1, !.ctl = "raise"]
    ELSE reply_and_mirror([c EXCEPT !.calls = @ + 1], chat_id, Msg("vehicle_card", vid),
                          <<Btn("btn_buy_loc", vid), Btn("btn_menu_mech", vid), btn_search>>,
                          <<>>)

\* bot.py:805-994
BotMode(c, msg, status) ==
    LET chat_id == msg.from IN
    IF msg.type = "text" THEN
        LET text_body == Strip(msg.body)
            c1 == log_to_db(c, chat_id,
                            IF status = "menu_mode" THEN "user_feedback" ELSE "search_text",
                            text_body)
        IN greeting_or_search(send_log_to_admin(c1, chat_id, Msg("searched", text_body), "log"),
                              chat_id, text_body, status)
    ELSE IF msg.type = "interactive" /\ msg.itype = "list_reply" THEN
        IF msg.id.base = "cmd_search_"
        THEN LET new_query == msg.id.arg
                 c1 == send_log_to_admin(c, chat_id, Msg("list_selection", new_query), "log")
             IN process_search_request(c1, chat_id, new_query, status)
        \* bot.py:854: .single() raises when the row is missing
        ELSE IF Fails(c) \/ ~c.vehFound
        THEN [c EXCEPT !.calls = @ + 1, !.ctl = "raise"]
        ELSE vehicle_card(send_log_to_admin([c EXCEPT !.calls = @ + 1], chat_id,
                                            Msg("selected", msg.id.arg), "log"),
                          chat_id, msg.id.arg)
    ELSE IF msg.type = "interactive" /\ msg.itype = "button_reply" THEN
        LET btn_id == msg.id
            c0 == send_log_to_admin(c, chat_id, Msg("click", msg.title), "log")
        IN
        CASE btn_id.base = "btn_add_missing_" ->
                LET c1 == log_to_db(c0, chat_id, "request_missing", btn_id.arg)
                    c2 == send_log_to_admin(c1, chat_id, Msg("request_add", btn_id.arg), "normal")
                    c3 == reply_and_mirror(c2, chat_id, Msg("noted", btn_id.arg), <<>>, <<>>)
                IN send_whatsapp_message(c3, chat_id, Msg("SHORT_WELCOME", <<>>))
          [] btn_id = Btn("btn_human_help", <<>>) ->
                LET c1 == db_update(c0, chat_id, [status |-> "human"])
                    c2 == log_to_db(c1, chat_id, "human_mode_req", <<>>)
                    c3 == send_log_to_admin(c2, chat_id, Msg("human_requested", <<>>), "high")
                IN reply_and_mirror(c3, chat_id, Msg("human_mode_on", <<>>),
                                    <<Btn("btn_return_bot", <<>>)>>, <<>>)
          [] btn_id = Btn("btn_return_bot", <<>>) ->
                LET c1 == db_update(c0, chat_id, [status |-> "bot"])
                    c2 == reply_and_mirror(c1, chat_id, Msg("SHORT_WELCOME", <<>>), <<>>, <<>>)
                IN send_log_to_admin(c2, chat_id, Msg("returned_via_button", <<>>), "log")
          [] btn_id \in {Btn("btn_search_retry", <<>>), Btn("btn_search_error", <<>>)} ->
                LET c1 == send_whatsapp_message(c0, chat_id, Msg("SHORT_WELCOME", <<>>))
                IN db_update(c1, chat_id, [status |-> "bot"])
          [] btn_id.base = "btn_buy_loc" ->
                LET c1 == db_update(c0, chat_id, [status |-> "waiting_buyer_location"])
                IN reply_and_mirror(c1, chat_id, Msg("ask_buyer_location", <<>>), <<>>, <<>>)
          [] btn_id.base = "btn_menu_mech" ->
                LET c1 == db_update(c0, chat_id, [status |-> "menu_mode"])
                IN reply_and_mirror(c1, chat_id, Msg("colleague_menu", <<>>),
                                    <<Btn("btn_is_mechanic", <<>>), Btn("btn_is_seller", <<>>),
                                      Btn("btn_back_actions", btn_id.arg)>>, <<>>)
          [] btn_id.base = "btn_back_actions" ->
                send_car_actions(c0, chat_id, btn_id.arg)
          [] btn_id = Btn("btn_is_mechanic", <<>>) ->
                LET c1 == log_to_db(c0, chat_id, "funnel_start", <<>>)
                    c2 == db_update(c1, chat_id, [status |-> "waiting_mechanic_priority"])
                IN reply_and_mirror(c2, chat_id, Msg("ask_priority", <<>>),
                                    <<Btn("btn_prio_speed", <<>>), Btn("btn_prio_price", <<>>),
                                      btn_cancel>>, <<>>)
          [] btn_id = Btn("btn_is_seller", <<>>) ->
                LET c1 == log_to_db(c0, chat_id, "funnel_start", <<>>)
                    c2 == db_update(c1, chat_id, [status |-> "waiting_seller_name"])
                IN reply_and_mirror(c2, chat_id, Msg("ask_seller_name", <<>>), <<btn_cancel>>, <<>>)
          [] OTHER -> c0
    ELSE c

\* the cancel check guards the survey steps only
Dispatch_cancel_in_survey(c, msg) ==
    LET status == c.status
        input_val == Strip(get_message_content(msg))
    IN
    IF Raised(c) THEN c
    ELSE IF status = "human" THEN HumanMode(c, msg)
    ELSE IF status \in SurveyStatuses /\ IsCancel(msg) THEN GlobalCancel(c, msg)
    ELSE IF status \in SurveyStatuses /\ input_val # <<>> THEN SurveyStep(c, msg, status, input_val)
    ELSE IF status \in {"bot", "menu_mode"} THEN BotMode(c, msg, status)
    ELSE c

\* bot.py:622-994, routing on the local status
Dispatch(c, msg) ==
    LET status == c.status
        input_val == Strip(get_message_content(msg))
    IN
    IF Raised(c) THEN c
    ELSE IF status = "human" THEN HumanMode(c, msg)
    ELSE IF IsCancel(msg) THEN GlobalCancel(c, msg)
    ELSE IF status \in SurveyStatuses /\ input_val # <<>> THEN SurveyStep(c, msg, status, input_val)
    ELSE IF status \in {"bot", "menu_mode"} THEN BotMode(c, msg, status)
    ELSE c

\* the record of what the loop did with one change
Traced(c, msg, result) ==
    [c EXCEPT !.trace = Append(@, [msg |-> msg, result |-> result, status |-> c.status,
                                   user_type |-> c.user_type, created |-> c.created,
                                   timed_out |-> c.timed_out])]

Handled(c, msg) == Traced(c, msg, IF c.ctl = "raise" THEN "raised" ELSE "handled")

\* bot.py:551-565, the dedup guard, then the handling of the change
Deduplicated(c, msg) ==
    IF msg.msg_id # NoId /\ InDeque(c.ids, msg.msg_id)
    THEN Traced([c EXCEPT !.ctl = "return"], msg, "ignored_duplicate")
    ELSE LET c1 == IF msg.msg_id # NoId
                   THEN [c EXCEPT !.ids = DequeAppend(@, msg.msg_id)]
                   ELSE c
         IN Handled(Dispatch(SessionManagement(c1, msg), msg), msg)

\* bot.py:533-996, the body of the loop for one change of the payload.
\* ctl tells how the loop goes on: "continue", "return" (the two guards
\* leave the whole delivery) or "raise" (an uncaught store exception).
HandleChange(c, msg) ==
    LET base == [c EXCEPT !.status = "-", !.user_type = "-",
                          !.created = FALSE, !.timed_out = FALSE]
    IN IF IsStale(base, msg)
       THEN Traced([base EXCEPT !.ctl = "return"], msg, "ignored_stale")
       ELSE Deduplicated(base, msg)

\* bot.py: webhook, over the changes of one delivery in order
RECURSIVE webhook(_, _)
NextChange(c, rest) == IF c.ctl = "continue" THEN webhook(c, rest) ELSE c

webhook(c, payload) ==
    IF payload = <<>> THEN c
    ELSE NextChange(HandleChange(c, Head(payload)), Tail(payload))

----------------------------------------------------------------------------
(* Operator side, telegram_crm.py *)

\* handle_admin_reply: an operator writes in the topic of a user
handle_admin_reply(c, phone, text) ==
    LET user == c.users[phone] IN
    IF ~(user.exists /\ user.topic) THEN c
    ELSE LET c1 == IF user.status # "human" THEN db_update(c, phone, [status |-> "human"]) ELSE c
         IN [c1 EXCEPT !.wa = Append(@, [phone |-> phone, kind |-> "buttons", text |-> text,
                                         buttons |-> <<Btn("btn_return_bot", <<>>)>>,
                                         rows |-> <<>>])]

\* on_resolve_click: the operator presses "Volver a Bot"
on_resolve_click(c, phone) == db_update(c, phone, [status |-> "bot"])

\* The store client of telegram_crm.  The module creates a synchronous one
\* (telegram_crm.py:18-20) and its handlers call execute() without await
\* (telegram_crm.py:265, 276, 306); at startup bot.py:55 replaces it by the
\* client of create_async_client, whose execute() only runs when awaited.
StoreClients == {"sync", "async"}

\* telegram_crm.py:263-293 with the asynchronous client: the lookup is never
\* run, reading its data raises inside the try, nothing is written or sent
handle_admin_reply_with(client, c, phone, text) ==
    IF client = "sync" THEN handle_admin_reply(c, phone, text) ELSE c

\* telegram_crm.py:301-315 with the asynchronous client: the update is
\* never run
on_resolve_click_with(client, c, phone) ==
    IF client = "sync" THEN on_resolve_click(c, phone) ELSE c

----------------------------------------------------------------------------
(* Messages the environment may deliver *)

profile_name == <<"A","n","a">>

Message(p, type, itype, body, id, title) ==
    [from |-> p, name |-> profile_name, type |-> type, itype |-> itype, body |-> body,
     id |-> id, title |-> title, msg_id |-> NoId, ts |-> NoTs]
TextMsg(p, body) == Message(p, "text", "-", body, Btn("", <<>>), <<>>)
ButtonMsg(p, id, title) == Message(p, "interactive", "button_reply", <<>>, id, title)
ListMsg(p, id, title) == Message(p, "interactive", "list_reply", <<>>, id, title)
MediaMsg(p) == Message(p, "image", "-", <<>>, Btn("", <<>>), <<>>)
Stamp(m, id, ts) == [m EXCEPT !.msg_id = id, !.ts = ts]

t_hola == w_hola
t_Menu == <<" ","M","e","n","u"," ">>
t_menu == w_menu
t_start == w_start
t_bot == w_bot
t_cancelar == w_cancelar
t_query == <<"g","o","l"," ","1",".","6">>
t_blank == <<" ">>
title_return == <<"E_robot"," ","V","o","l","v","e","r"," ","a","l"," ","B","o","t">>
title_cancel == <<"E_back"," ","C","a","n","c","e","l","a","r">>
title_help ==
    <<"E_speech"," ","H","a","b","l","a","r"," ","c","o","n"," ","a","l","g","u","i","e","n">>
title_search ==
    <<"E_lens"," ","B","u","s","c","a","r"," ","o","t","r","o">>
title_buy ==
    <<"E_pin"," ","D","o_acute","n","d","e"," ","c","o","m","p","r","a","r">>
title_mech ==
    <<"E_gear","VS16"," ","M","e","n","u_acute"," ","/"," ","T","a","l","l","e","r">>
title_is_mechanic ==
    <<"E_wrench"," ","S","o","y"," ","M","e","c","a_acute","n","i","c","o">>
title_is_seller ==
    <<"E_shop"," ","S","o","y"," ","V","e","n","d","e","d","o","r">>
vid1 == <<"1">>

----------------------------------------------------------------------------
(* State machine *)

Idle == [op |-> "init", trace |-> <<>>, wa |-> <<>>, out |-> <<>>, tg |-> <<>>, an |-> <<>>,
         srch |-> <<>>, writes |-> 0, ctl |-> "continue", fault |-> 0, waDown |-> FALSE,
         flip |-> FALSE]

\* flip changes with every operation, so that two operations in a row differ
\* (fault is the number of the store call that raised, 0 when none did)
Report(op, c) == [op |-> op, trace |-> c.trace, wa |-> c.wa, out |-> c.out, tg |-> c.tg,
                  an |-> c.an, srch |-> c.srch, writes |-> c.writes, ctl |-> c.ctl,
                  fault |-> IF c.failAt # 0 /\ c.calls >= c.failAt THEN c.failAt ELSE 0,
                  waDown |-> c.waDown, flip |-> ~last.flip]

\* no handler is in flight (the slots are used by SpecRace only)
NoFlight == [pc |-> "idle", msg |-> Stamp(TextMsg("p1", <<>>), NoId, NoTs),
             status |-> "-", user_type |-> "-", current |-> NoMeta]
NoFlights == [s \in 1..MaxInflight |-> NoFlight]

Init ==
    /\ users = [p \in Phones |-> NoRow]
    /\ PROCESSED_MSG_IDS = <<>>
    /\ now = 0
    /\ last = Idle
    /\ delivered = 0
    /\ human_since = [p \in Phones |-> -1]
    /\ inflight = NoFlights

\* a session that has completed the mechanic survey (is_mechanic, "hola", "hola")
RegisteredMechanic ==
    [exists |-> TRUE, name |-> w_hola, status |-> "bot", user_type |-> "mechanic",
     last_active_at |-> 0, location |-> <<>>,
     metadata |-> [NoMeta EXCEPT !.priority = "price", !.shop_name = w_hola],
     topic |-> TRUE]

InitRegistered ==
    /\ users = [p \in Phones |-> RegisteredMechanic]
    /\ PROCESSED_MSG_IDS = <<>>
    /\ now = 0
    /\ last = Idle
    /\ delivered = 0
    /\ human_since = [p \in Phones |-> -1]
    /\ inflight = NoFlights

\* the provider delivers a payload to POST /webhook
Deliver(payload, tgFrom, rows, vehFound) ==
    \E c \in {webhook(NewCtx(users, PROCESSED_MSG_IDS, now, tgFrom, rows, vehFound), payload)} :
       /\ users' = c.users
       /\ PROCESSED_MSG_IDS' = c.ids
       /\ last' = Report("webhook", c)
       /\ human_since' = c.since
       /\ UNCHANGED <<now, inflight>>

AdminReply(phone) ==
    \E c \in {handle_admin_reply(NewCtx(users, PROCESSED_MSG_IDS, now, 1, rows_none, FALSE),
                                  phone, Msg("operator_text", <<>>))} :
       /\ users[phone].exists /\ users[phone].topic
       /\ users' = c.users
       /\ human_since' = c.since
       /\ last' = Report("admin_reply", c)
       /\ UNCHANGED <<PROCESSED_MSG_IDS, now, delivered, inflight>>

Resolve(phone) ==
    \E c \in {on_resolve_click(NewCtx(users, PROCESSED_MSG_IDS, now, 1, rows_none, FALSE), phone)} :
       /\ users[phone].exists
       /\ users' = c.users
       /\ human_since' = c.since
       /\ last' = Report("resolve", c)
       /\ UNCHANGED <<PROCESSED_MSG_IDS, now, delivered, inflight>>

Tick(d) ==
    /\ now + d <= MaxTime
    /\ now' = now + d
    /\ UNCHANGED <<users, PROCESSED_MSG_IDS, last, delivered, human_since, inflight>>

\* choices of the environment that can matter for a message in the current state
Never == 99
TopicChoices(m) ==
    IF users[m.from].exists /\ users[m.from].topic THEN {1}
    ELSE (1..MaxTopicAttempts) \cup {Never}
RowChoices(m, Rows) ==
    IF m.type = "text" \/ (m.itype = "list_reply" /\ m.id.base = "cmd_search_")
    THEN Rows ELSE {rows_none}
FoundChoices(m) ==
    IF m.itype = "list_reply" \/ m.id.base = "btn_back_actions" THEN BOOLEAN ELSE {TRUE}

DeliverOne(Msgs, Ids, Ages, Rows) ==
    \E m \in Msgs, id \in Ids, age \in Ages :
        \E tgFrom \in TopicChoices(m), rows \in RowChoices(m, Rows), vehFound \in FoundChoices(m) :
            Deliver(<<Stamp(m, id, IF age = NoTs THEN NoTs ELSE now - age)>>,
                    tgFrom, rows, vehFound)

b_return == <<Btn("btn_return_bot", <<>>), title_return>>
b_cancel == <<Btn("btn_cancel_survey", <<>>), title_cancel>>
b_help == <<Btn("btn_human_help", <<>>), title_help>>
b_search == <<Btn("btn_search_error", <<>>), title_search>>
b_buy == <<Btn("btn_buy_loc", vid1), title_buy>>
b_mech == <<Btn("btn_menu_mech", vid1), title_mech>>
b_is_mechanic == <<Btn("btn_is_mechanic", <<>>), title_is_mechanic>>
b_is_seller == <<Btn("btn_is_seller", <<>>), title_is_seller>>

MsgsOf(texts, buttons) ==
    {TextMsg(p, b) : p \in Phones, b \in texts}
    \cup {ButtonMsg(p, b[1], b[2]) : p \in Phones, b \in buttons}

t_inicio == w_inicio
t_volver == w_volver
list_vehicle == ListMsg("p1", Btn("", vid1), <<"1",".","6","L">>)
list_model == ListMsg("p1", Btn("cmd_search_", b_ford \o <<" ">> \o m_ka), m_ka)

(* Spec: every mode of the session state machine, behaviours of at most *)
(* MaxDeliveries deliveries.                                            *)
Messages ==
    MsgsOf({t_hola, t_Menu, t_start, t_cancelar, t_query},
           {b_return, b_cancel, b_help, b_buy, b_mech, b_is_mechanic, b_is_seller})
    \cup {MediaMsg(p) : p \in Phones}

Next ==
    /\ delivered < MaxDeliveries
    /\ delivered' = delivered + 1
    /\ DeliverOne(Messages, {NoId}, {NoTs}, {rows_none, rows_one})

Spec == (Init \/ InitRegistered) /\ [][Next]_vars

(* SpecHuman: bot and human mode with the clock and the operator. *)
HumanMessages ==
    MsgsOf({t_hola, t_Menu, t_start, t_bot, t_volver, t_inicio, t_query, t_blank},
           {b_return, b_help, b_search})
    \cup {MediaMsg(p) : p \in Phones}

NextHuman ==
    \/ DeliverOne(HumanMessages, {NoId}, {NoTs}, {rows_one}) /\ UNCHANGED delivered
    \/ \E d \in TickSteps : Tick(d)
    \/ \E p \in Phones : AdminReply(p)
    \/ \E p \in Phones : Resolve(p)

SpecHuman == Init /\ [][NextHuman]_vars

(* SpecGuard: the staleness filter and the deduplication cache. *)
GuardMessages == MsgsOf({t_query}, {})
Ages == {NoTs, STALE_SECONDS, STALE_SECONDS + 1}

NextGuard ==
    \/ DeliverOne(GuardMessages, MsgIds \cup {NoId}, Ages, {rows_one})
       /\ UNCHANGED delivered
    \/ Tick(TIMEOUT_SECONDS)

SpecGuard == Init /\ [][NextGuard]_vars

(* SpecFeed: a session in human mode is fed FeedLength texts that are no *)
(* bot-return trigger, then the keyword "menu"; delivered is the number  *)
(* of events fed so far.                                                 *)
FeedLength == 5
FeedPause == 600

\* the session left by a help request (btn_human_help) of a new user, with
\* the operator topic created or not
HumanSession(topic) ==
    [exists |-> TRUE, name |-> profile_name, status |-> "human", user_type |-> "unknown",
     last_active_at |-> 0, location |-> <<>>, metadata |-> NoMeta, topic |-> topic]

InitFeed ==
    /\ \E topic \in BOOLEAN : users = [p \in Phones |-> HumanSession(topic)]
    /\ PROCESSED_MSG_IDS = <<>>
    /\ now = 0
    /\ last = Idle
    /\ delivered = 0
    /\ human_since = [p \in Phones |-> 0]
    /\ inflight = NoFlights

FeedTexts == {t_query, t_hola, t_cancelar}

FeedText ==
    /\ delivered < FeedLength
    /\ delivered' = delivered + 1
    /\ DeliverOne(MsgsOf(FeedTexts, {}), {NoId}, {NoTs}, {rows_one})

FeedMenu ==
    /\ delivered = FeedLength
    /\ delivered' = delivered + 1
    /\ DeliverOne(MsgsOf({t_menu}, {}), {NoId}, {NoTs}, {rows_one})

NextFeed ==
    \/ FeedText
    \/ FeedMenu
    \/ Tick(FeedPause)

SpecFeed == InitFeed /\ [][NextFeed]_vars

(* SpecSearch: the search and its result pages in bot and menu_mode; the *)
(* user writes a query, opens the colleague menu, or picks an entry of   *)
(* the list sent last.                                                   *)
MaxSearches == 3

SearchResults ==
    {rows_none, rows_one, rows_ten, rows_single_brand, rows_mixed, rows_one_model,
     rows_ten_models, rows_twelve_pairs, rows_twelve_fords, rows_late_model, rows_late_brand}

SearchMessages == MsgsOf({t_query}, {b_mech})

\* the list_reply events the lists of the last operation offer
MenuEntries ==
    UNION { {ListMsg(last.wa[i].phone, last.wa[i].rows[j].id, last.wa[i].rows[j].title) :
                j \in 1..Len(last.wa[i].rows)} : i \in 1..Len(last.wa) }

NextSearch ==
    /\ delivered < MaxSearches
    /\ delivered' = delivered + 1
    /\ \/ DeliverOne(SearchMessages, {NoId}, {NoTs}, SearchResults)
       \/ DeliverOne(MenuEntries, {NoId}, {NoTs}, SearchResults)

SpecSearch == InitRegistered /\ [][NextSearch]_vars

(* SpecIdle: sessions left alone in every mode for longer than the timeout. *)
IdleMessages == MsgsOf({t_query}, {b_help, b_mech, b_is_seller, b_buy})

NextIdle ==
    \/ /\ delivered < MaxDeliveries
       /\ delivered' = delivered + 1
       /\ DeliverOne(IdleMessages, {NoId}, {NoTs}, {rows_one})
    \/ Tick(TIMEOUT_SECONDS + 1)

SpecIdle == Init /\ [][NextIdle]_vars

(* SpecParse: the query parser on texts of one and two tokens. *)
Join(a, b) == a \o <<" ">> \o b

QueryWords ==
    {<<"H","i","l","u","x">>, <<"g","o","l">>, <<"v","w">>,
     <<"1","9","4","9">>, <<"1","9","5","0">>, <<"2","0","1","5">>, <<"2","0","3","0">>,
     <<"2","0","3","1">>, <<"2","0","8">>, <<"3","0","0","8">>, <<"1",".","6">>, <<"2","l">>}

QueryTexts == QueryWords \cup {Join(a, b) : a, b \in QueryWords}

NextParse ==
    DeliverOne(MsgsOf(QueryTexts, {}), {NoId}, {NoTs}, {rows_one}) /\ UNCHANGED delivered

SpecParse == InitRegistered /\ [][NextParse]_vars

(* SpecQuery: one text is searched in a table of vehicles; the parser and *)
(* the filters of the search run on texts of one, two and three words.    *)
Car(id, brand, model, year_from, year_to, engine) ==
    [vehicle_id |-> id, brand_car |-> brand, model |-> model,
     year_from |-> year_from, year_to |-> year_to, engine_disp_l |-> engine]

\* the table "vehicle"
Catalog ==
    <<Car(1, <<"R","e","n","a","u","l","t">>, <<"C","l","i","o"," ","M","i_acute","o">>, 2013, 2016, <<"1",".","2">>),
      Car(2, <<"I","v","e","c","o">>, <<"K","a","m","i","o","n">>, 2005, NoYear, <<"3",".","0">>),
      Car(3, <<"R","e","n","a","u","l","t">>, <<"M","e_acute","g","a","n","e">>, 1998, 2010, <<"1",".","6">>),
      Car(4, <<"R","e","n","a","u","l","t">>, <<"M","e","g","a","n","e">>, 2011, 2015, <<"2",".","0">>),
      Car(5, <<"V","o","l","k","s","w","a","g","e","n">>, <<"G","o","l"," ","T","r","e","n","d">>, 2009, 2020, <<"1",".","6">>),
      Car(6, <<"P","e","u","g","e","o","t">>, <<"2","0","8">>, 2013, NoYear, <<"1",".","6">>),
      Car(7, <<"P","e","u","g","e","o","t">>, <<"3","0","0","8">>, 2010, NoYear, NoEngine),
      Car(8, <<"T","o","y","o","t","a">>, <<"H","i","l","u","x">>, 2005, 2015, <<"3",".","0">>),
      Car(9, <<"M","e","r","c","e","d","e","s","-","B","e","n","z">>, <<"S","p","r","i","n","t","e","r">>, 1997, NoYear, <<"2",".","1">>)>>

WholeTexts ==
    {<<"2","0","6">>,
     <<"2","0","7">>,
     <<"2","0","8">>,
     <<"3","0","6">>,
     <<"3","0","7">>,
     <<"3","0","8">>,
     <<"4","0","5">>,
     <<"4","0","8">>,
     <<"5","0","4">>,
     <<"5","0","5">>,
     <<"3","0","0","8">>,
     <<"5","0","0","8">>,
     <<"5","0","0">>,
     <<"f","1","0","0">>,
     <<"f","1","5","0">>,
     <<"r","a","m","1","5","0","0">>,
     <<"r","a","m","2","5","0","0">>,
     <<"F","1","0","0">>,
     <<"R","A","M","1","5","0","0">>,
     <<"1","9","4","9">>,
     <<"2","0","3","1">>,
     <<"2",",","0">>,
     <<"1",".","6","l">>,
     <<"1","6">>,
     <<"1","7">>,
     <<"0",".","4">>,
     <<"x","l">>,
     <<"l">>,
     <<"v","o","l","k","s">>,
     <<"v","o","l","k","s","w","a","g","e","n">>,
     <<"m","e","r","c","e","d","e","s">>,
     <<"c","h","e","v","y">>,
     <<"m","i_acute","o">>,
     <<"k","a","m","i","o","n">>,
     <<"m","e","g","a","n","e">>,
     <<"m","e_acute","g","a","n","e">>,
     <<"t","r","e","n","d">>,
     <<"r","e","n">>,
     <<"r","e","n","a">>,
     <<"f","i","l","t","r","o">>,
     <<"h",".","l","u","x">>,
     <<"%">>,
     <<"1",".","6",".","1">>}

PairWords ==
    {<<"2","0","8">>,
     <<"3","0","0","8">>,
     <<"2","0","1","5">>,
     <<"1","9","5","0">>,
     <<"2","0","3","0">>,
     <<"1",".","6">>,
     <<"2","l">>,
     <<"g","o","l">>,
     <<"v","w">>,
     <<"m","b">>,
     <<"m","i","o">>,
     <<"c","l","i","o">>,
     <<"h","i","l","u","x">>}

t_gol_trend == <<"G","o","l"," ","T","r","e","n","d"," ","1",".","6">>

SearchTexts ==
    WholeTexts \cup PairWords \cup {Join(a, b) : a, b \in PairWords} \cup {t_gol_trend}

\* bot.py:240-301: the table answers the query of the text
DeliverQuery(text) ==
    \E p \in Phones :
        Deliver(<<Stamp(TextMsg(p, text), NoId, NoTs)>>, 1,
                Select(Catalog, parse_search_query(Strip(text))), TRUE)

NextQuery ==
    /\ last.op = "init"
    /\ \E text \in SearchTexts : DeliverQuery(text)
    /\ UNCHANGED delivered

SpecQuery == InitRegistered /\ [][NextQuery]_vars

(* SpecFault: deliveries during which a call to the store raises, or the *)
(* primary channel refuses the messages, or the operator channel is down. *)
MaxFaultDeliveries == 2
MaxCalls == 5

\* the provider delivers a payload while the environment misbehaves
DeliverFaulty(payload, failAt, waDown, tgFrom, rows, vehFound) ==
    \E c \in {webhook(Faulty(NewCtx(users, PROCESSED_MSG_IDS, now, tgFrom, rows, vehFound),
                             failAt, waDown), payload)} :
       /\ users' = c.users
       /\ PROCESSED_MSG_IDS' = c.ids
       /\ last' = Report("webhook", c)
       /\ human_since' = c.since
       /\ UNCHANGED <<now, inflight>>

FaultMessages ==
    MsgsOf({t_hola, t_query}, {b_help, b_is_seller, b_search}) \cup {list_vehicle}

NextFault ==
    /\ delivered < MaxFaultDeliveries
    /\ delivered' = delivered + 1
    /\ \E m \in FaultMessages, failAt \in 0..MaxCalls, waDown \in BOOLEAN :
          \E tgFrom \in TopicChoices(m), rows \in RowChoices(m, {rows_none, rows_one}),
             vehFound \in FoundChoices(m) :
                DeliverFaulty(<<Stamp(m, NoId, NoTs)>>, failAt, waDown, tgFrom, rows, vehFound)

SpecFault == Init /\ [][NextFault]_vars

(* SpecSilent: events that no branch of the routing takes: a button of a *)
(* finished survey, a picture, a session whose stored status is unknown.  *)
b_prio_speed == <<Btn("btn_prio_speed", <<>>), w_velocidad>>

\* a session whose stored status is none of the statuses the routing knows
LegacySession == [RegisteredMechanic EXCEPT !.status = "paused"]

InitLegacy ==
    /\ users = [p \in Phones |-> LegacySession]
    /\ PROCESSED_MSG_IDS = <<>>
    /\ now = 0
    /\ last = Idle
    /\ delivered = 0
    /\ human_since = [p \in Phones |-> -1]
    /\ inflight = NoFlights

SilentMessages ==
    MsgsOf({t_hola}, {b_mech, b_is_seller, b_prio_speed}) \cup {MediaMsg(p) : p \in Phones}

NextSilent ==
    /\ delivered < MaxDeliveries
    /\ delivered' = delivered + 1
    /\ DeliverOne(SilentMessages, {NoId}, {NoTs}, {rows_one})

SpecSilent == (Init \/ InitLegacy) /\ [][NextSilent]_vars

(* SpecRace: several events of one identity handled at the same time.  The *)
(* handler is a coroutine that gives way at each await; its steps here are *)
(* the session load, the select of update_user_metadata, and the rest.    *)
t_zona == <<"C","A","B","A">>

\* a session in the first step of the seller survey
SellerSession ==
    [RegisteredMechanic EXCEPT !.status = "waiting_seller_name", !.user_type = "unknown",
                               !.name = w_hola, !.metadata = NoMeta]

InitSeller ==
    /\ users = [p \in Phones |-> SellerSession]
    /\ PROCESSED_MSG_IDS = <<>>
    /\ now = 0
    /\ last = Idle
    /\ delivered = 0
    /\ human_since = [p \in Phones |-> -1]
    /\ inflight = NoFlights

\* bot.py:677-803: the event is an answer to the question of the sub-state
IsSurveyAnswer(h) ==
    /\ h.status \in SurveyStatuses
    /\ ~IsCancel(h.msg)
    /\ Strip(get_message_content(h.msg)) # <<>>

\* bot.py:580-620: the session is loaded and last_active_at written; status
\* and user_type stay in local variables of the handler
Load(s, m) ==
    /\ inflight[s].pc = "idle"
    /\ delivered < MaxEvents
    /\ delivered' = delivered + 1
    /\ \E c \in {SessionManagement(NewCtx(users, PROCESSED_MSG_IDS, now, 1, rows_none, TRUE), m)} :
          /\ users' = c.users
          /\ human_since' = c.since
          /\ last' = Report("load", c)
          /\ inflight' = [inflight EXCEPT ![s] = [pc |-> "loaded", msg |-> m,
                                                  status |-> c.status,
                                                  user_type |-> c.user_type,
                                                  current |-> NoMeta]]
    /\ UNCHANGED <<PROCESSED_MSG_IDS, now>>

\* bot.py:103-104: update_user_metadata selects the metadata column
MetaRead(s) ==
    /\ inflight[s].pc = "loaded"
    /\ IsSurveyAnswer(inflight[s])
    /\ inflight' = [inflight EXCEPT ![s].pc = "read",
                                    ![s].current = users[inflight[s].msg.from].metadata]
    /\ last' = Report("meta_read", NewCtx(users, PROCESSED_MSG_IDS, now, 1, rows_none, TRUE))
    /\ UNCHANGED <<users, PROCESSED_MSG_IDS, now, delivered, human_since>>

\* the metadata are read again when they are written (no stale copy)
Resumed_fresh(h) ==
    [NewCtx(users, PROCESSED_MSG_IDS, now, 1, rows_none, TRUE)
        EXCEPT !.status = h.status, !.user_type = h.user_type]

\* what the rest of a handler works with: the store as it is now, status and
\* user_type as they were loaded and, after the select of
\* update_user_metadata, the metadata as they were read (bot.py:104-110:
\* current.update(updates) is written back as the whole column)
Resumed(h) ==
    [NewCtx(users, PROCESSED_MSG_IDS, now, 1, rows_none, TRUE)
        EXCEPT !.status = h.status, !.user_type = h.user_type,
               !.users[h.msg.from] = IF h.pc = "read"
                                     THEN [@ EXCEPT !.metadata = h.current] ELSE @]

\* bot.py:622-996: the routing and everything it writes and sends
Finish(s) ==
    /\ \/ inflight[s].pc = "read"
       \/ inflight[s].pc = "loaded" /\ ~IsSurveyAnswer(inflight[s])
    /\ \E c \in {Handled(Dispatch(Resumed(inflight[s]), inflight[s].msg), inflight[s].msg)} :
          /\ users' = c.users
          /\ human_since' = c.since
          /\ last' = Report("finish", c)
    /\ inflight' = [inflight EXCEPT ![s] = NoFlight]
    /\ UNCHANGED <<PROCESSED_MSG_IDS, now, delivered>>

RaceMessages == MsgsOf({t_hola, t_zona}, {b_help, b_is_seller})

NextRace ==
    \/ \E s \in 1..MaxInflight, m \in RaceMessages : Load(s, Stamp(m, NoId, NoTs))
    \/ \E s \in 1..MaxInflight : MetaRead(s)
    \/ \E s \in 1..MaxInflight : Finish(s)

SpecRace == (InitRegistered \/ InitSeller) /\ [][NextRace]_vars

(* SpecBatch: one payload that carries several changes, then payloads of  *)
(* one change; delivered counts the changes delivered so far.             *)
BatchMessages ==
    {Stamp(TextMsg(p, t_hola), id, NoTs) : p \in Phones, id \in MsgIds \cup {NoId}}
    \cup {Stamp(TextMsg(p, t_hola), 1, now - (STALE_SECONDS + 1)) : p \in Phones}

\* the payloads of at most n changes
Batches(n) == UNION {[1..k -> BatchMessages] : k \in 1..n}

NextBatch ==
    /\ delivered < MaxChanges + MaxDeliveries
    /\ \E payload \in Batches(IF last.op = "init" THEN MaxChanges ELSE 1) :
          /\ delivered' = delivered + Len(payload)
          /\ Deliver(payload, 1, rows_none, TRUE)

SpecBatch == Init /\ [][NextBatch]_vars

(* SpecRetry: deliveries that carry a provider identifier while a store  *)
(* call may fail; the provider delivers an identifier again when it got  *)
(* no acknowledgement.                                                   *)
RetryMessages == MsgsOf({t_hola}, {b_help})

NextRetry ==
    /\ delivered < MaxFaultDeliveries + 1
    /\ delivered' = delivered + 1
    /\ \E m \in RetryMessages, id \in MsgIds, failAt \in 0..MaxCalls :
          \E tgFrom \in TopicChoices(m) :
             DeliverFaulty(<<Stamp(m, id, NoTs)>>, failAt, FALSE, tgFrom, rows_none, TRUE)

SpecRetry == Init /\ [][NextRetry]_vars

(* SpecDup: deliveries with provider identifiers handled at the same     *)
(* time.  A handler runs from the top of the loop to its first await     *)
(* (bot.py:580) without giving way: the stale filter and the dedup guard *)
(* are one step, the rest of the handling is the other.                  *)

\* the guard tests the identifier and leaves the recording for later
PassGuard_unrecorded(c, msg) ==
    IF IsStale(c, msg) THEN Traced([c EXCEPT !.ctl = "return"], msg, "ignored_stale")
    ELSE IF msg.msg_id # NoId /\ InDeque(c.ids, msg.msg_id)
    THEN Traced([c EXCEPT !.ctl = "return"], msg, "ignored_duplicate")
    ELSE c

\* bot.py:537-563: the stale filter, then the test and the recording of the
\* identifier
PassGuard(c, msg) ==
    IF IsStale(c, msg) THEN Traced([c EXCEPT !.ctl = "return"], msg, "ignored_stale")
    ELSE IF msg.msg_id # NoId /\ InDeque(c.ids, msg.msg_id)
    THEN Traced([c EXCEPT !.ctl = "return"], msg, "ignored_duplicate")
    ELSE IF msg.msg_id # NoId THEN [c EXCEPT !.ids = DequeAppend(@, msg.msg_id)]
    ELSE c

Arrive(s, m) ==
    /\ inflight[s].pc = "idle"
    /\ delivered < MaxEvents + 1
    /\ delivered' = delivered + 1
    /\ \E c \in {PassGuard(NewCtx(users, PROCESSED_MSG_IDS, now, 1, rows_none, TRUE), m)} :
          /\ PROCESSED_MSG_IDS' = c.ids
          /\ last' = Report("arrive", c)
          /\ inflight' = [inflight EXCEPT ![s] = IF c.ctl = "return" THEN NoFlight
                                                 ELSE [NoFlight EXCEPT !.pc = "passed",
                                                                       !.msg = m]]
    /\ UNCHANGED <<users, now, human_since>>

\* bot.py:565-996: the session is loaded and the event routed
Proceed(s) ==
    /\ inflight[s].pc = "passed"
    /\ \E c \in {Handled(Dispatch(SessionManagement(
                             NewCtx(users, PROCESSED_MSG_IDS, now, 1, rows_none, TRUE),
                             inflight[s].msg), inflight[s].msg), inflight[s].msg)} :
          /\ users' = c.users
          /\ human_since' = c.since
          /\ last' = Report("proceed", c)
    /\ inflight' = [inflight EXCEPT ![s] = NoFlight]
    /\ UNCHANGED <<PROCESSED_MSG_IDS, now, delivered>>

NextDup ==
    \/ \E s \in 1..MaxInflight, m \in BatchMessages : Arrive(s, m)
    \/ \E s \in 1..MaxInflight : Proceed(s)

SpecDup == Init /\ [][NextDup]_vars

(* SpecLog: send_log_to_admin applied to a session in any mode, with or  *)
(* without an operator topic.                                            *)
InitLog ==
    /\ users \in {[p \in Phones |-> [RegisteredMechanic EXCEPT !.status = st, !.topic = t]] :
                     st \in Statuses, t \in BOOLEAN}
    /\ PROCESSED_MSG_IDS = <<>>
    /\ now \in {0, TIMEOUT_SECONDS}
    /\ last = Idle
    /\ delivered = 0
    /\ human_since = [p \in Phones |-> -1]
    /\ inflight = NoFlights

LogToAdmin(phone, text, priority, tgFrom) ==
    \E c \in {send_log_to_admin(NewCtx(users, PROCESSED_MSG_IDS, now, tgFrom, rows_none, TRUE),
                                phone, text, priority)} :
       /\ users' = c.users
       /\ human_since' = c.since
       /\ last' = Report("log", c)
       /\ UNCHANGED <<PROCESSED_MSG_IDS, now, delivered, inflight>>

NextLog ==
    \E phone \in Phones, text \in {Msg("click", w_hola), Msg("media", <<>>)},
       priority \in {"log", "normal", "high"} :
          \E tgFrom \in {1, Never} : LogToAdmin(phone, text, priority, tgFrom)

SpecLog == InitLog /\ [][NextLog]_vars

(* SpecOperator: the operator replies in the topic of a session or       *)
(* presses resolve, the session being in any mode and the user writing  *)
(* in between; the handlers run on either store client.                  *)
InitOperator ==
    /\ users \in {[p \in Phones |-> [RegisteredMechanic EXCEPT !.status = st]] : st \in Statuses}
    /\ PROCESSED_MSG_IDS = <<>>
    /\ now = 0
    /\ last = Idle
    /\ delivered = 0
    /\ human_since = [p \in Phones |-> -1]
    /\ inflight = NoFlights

OperatorReply(client, phone) ==
    \E c \in {handle_admin_reply_with(client,
                    NewCtx(users, PROCESSED_MSG_IDS, now, 1, rows_none, FALSE),
                    phone, Msg("operator_text", <<>>))} :
       /\ users' = c.users
       /\ human_since' = c.since
       /\ last' = Report("admin_reply", c)
       /\ UNCHANGED <<PROCESSED_MSG_IDS, now, delivered, inflight>>

ResolveClick(client, phone) ==
    \E c \in {on_resolve_click_with(client,
                    NewCtx(users, PROCESSED_MSG_IDS, now, 1, rows_none, FALSE), phone)} :
       /\ users' = c.users
       /\ human_since' = c.since
       /\ last' = Report("resolve", c)
       /\ UNCHANGED <<PROCESSED_MSG_IDS, now, delivered, inflight>>

OperatorMessages == MsgsOf({t_hola}, {b_is_seller})

NextOperator ==
    \/ /\ delivered < MaxDeliveries
       /\ delivered' = delivered + 1
       /\ DeliverOne(OperatorMessages, {NoId}, {NoTs}, {rows_none})
    \/ \E client \in StoreClients, p \in Phones : OperatorReply(client, p)
    \/ \E client \in StoreClients, p \in Phones : ResolveClick(client, p)

SpecOperator == InitOperator /\ [][NextOperator]_vars

----------------------------------------------------------------------------
(* Properties *)

\* the step is an operation of the given kind (flip tells it from stuttering)
IsStep(op) == last'.flip # last.flip /\ last'.op = op
\* the step is a delivery of one message; Arrived is that message
IsDelivery == IsStep("webhook") /\ Len(last'.trace) = 1
Arrived == last'.trace[1].msg
Outcome == last'.trace[1]
\* the state follows a delivery of one message
Delivered == last.op = "webhook" /\ Len(last.trace) = 1

\* C1: a delivery whose provider identifier is still in the dedup cache
\* performs no write on the session store (not even last_active_at) and
\* sends nothing on the primary channel nor on the mirror channel.
C1_DuplicateDeliveryDoesNothing ==
    [][ ( /\ IsDelivery
          /\ Arrived.msg_id # NoId
          /\ \E i \in 1..Len(PROCESSED_MSG_IDS) : PROCESSED_MSG_IDS[i] = Arrived.msg_id )
        => ( /\ users' = users
             /\ PROCESSED_MSG_IDS' = PROCESSED_MSG_IDS
             /\ last'.writes = 0
             /\ last'.wa = <<>>
             /\ last'.tg = <<>> ) ]_vars

\* a redelivery to an existing session was discarded while an older
\* identifier than the newest one was being repeated
C1_Witness ==
    /\ Delivered
    /\ last.trace[1].result = "ignored_duplicate"
    /\ users[last.trace[1].msg.from].exists
    /\ Len(PROCESSED_MSG_IDS) = 2
    /\ PROCESSED_MSG_IDS[1] = last.trace[1].msg.msg_id

\* C2: a message whose provider timestamp is more than 300 seconds before
\* the processing time is discarded before the session is loaded: nothing
\* is created, written or sent; a message at most 300 seconds old is not
\* discarded as stale.
C2_StaleDiscardedFreshPasses ==
    [][ ( IsDelivery /\ Arrived.ts # NoTs )
        => IF now - Arrived.ts > 300
           THEN /\ users' = users
                /\ PROCESSED_MSG_IDS' = PROCESSED_MSG_IDS
                /\ last'.writes = 0
                /\ last'.wa = <<>>
                /\ last'.tg = <<>>
           ELSE Outcome.result # "ignored_stale" ]_vars

\* a message 301 seconds old was discarded; the session exists
C2_Witness ==
    /\ Delivered
    /\ last.trace[1].result = "ignored_stale"
    /\ last.trace[1].msg.ts = now - 301
    /\ users[last.trace[1].msg.from].exists

----------------------------------------------------------------------------
(* Human mode *)

\* the session row of the sender before and after the delivery
Pre == users[Arrived.from]
Post == users'[Arrived.from]
\* the text the handler extracts from the event
Content == Strip(get_message_content(Arrived))

\* the event is a bot-return trigger of human mode
IsReturnTrigger(m) ==
    \/ m.type = "text" /\ Strip(Lower(m.body)) \in {w_menu, w_start, w_bot, w_volver, w_inicio}
    \/ m.type = "interactive" /\ m.itype = "button_reply" /\ m.id = Btn("btn_return_bot", <<>>)

----------------------------------------------------------------------------
(* Surveys *)

\* the event is a global cancel
IsCancelEvent(m) ==
    \/ Lower(Strip(get_message_content(m)))
           \in {w_cancelar, w_salir, w_menu, w_basta, w_chau, w_volver}
    \/ m.type = "interactive" /\ m.itype = "button_reply" /\ m.id = Btn("btn_cancel_survey", <<>>)

\* the row holds val as the answer to the question of the sub-state
Answered(status, val, row) ==
    CASE status = "waiting_mechanic_priority" ->
            row.metadata.priority =
                (IF Contains(Lower(val), w_velocidad) \/ Contains(Lower(val), w_rocket)
                 THEN "speed" ELSE "price")
      [] status \in {"waiting_mechanic_name", "waiting_seller_name"} ->
            row.metadata.shop_name = val
      [] status \in {"waiting_seller_location", "waiting_buyer_location"} ->
            row.metadata.location = val
      [] status = "waiting_seller_logistics" ->
            row.metadata.logistics = (IF Contains(Lower(val), w_envios) THEN "envios" ELSE "retiro")
      [] status = "waiting_buyer_urgency" ->
            row.metadata.urgency = val
      [] OTHER -> FALSE

\* the sub-state that follows in the flow
NextStep(status) ==
    CASE status = "waiting_mechanic_priority" -> "waiting_mechanic_name"
      [] status = "waiting_seller_name" -> "waiting_seller_location"
      [] status = "waiting_seller_location" -> "waiting_seller_logistics"
      [] status = "waiting_buyer_location" -> "waiting_buyer_urgency"
      [] OTHER -> "bot"

\* the lead type of the survey a final sub-state belongs to
LeadType(status) ==
    CASE status = "waiting_mechanic_name" -> "mechanic"
      [] status = "waiting_seller_logistics" -> "seller"
      [] OTHER -> "buyer"

InSurvey == IsDelivery /\ Pre.exists /\ Pre.status \in SurveyStatuses

\* C6, as stated: in a survey sub-state the extracted text of the event is
\* always written as the answer to the current question and never searched.
C6_SurveyTextAlwaysConsumed ==
    [][ InSurvey => ( /\ last'.srch = <<>>
                      /\ Answered(Pre.status, Content, Post) ) ]_vars

\* C6, amended: in a survey sub-state no event reaches the search; the
\* extracted text is written as the answer to the current question unless
\* it is empty or the event is a global cancel, and then no answer is
\* written at all.
C6_SurveyTextConsumedUnlessCancel ==
    [][ InSurvey
        => ( /\ last'.srch = <<>>
             /\ (Content # <<>> /\ ~IsCancelEvent(Arrived))
                    => Answered(Pre.status, Content, Post)
             /\ (Content = <<>> \/ IsCancelEvent(Arrived))
                    => ( Post.metadata = Pre.metadata /\ Post.location = Pre.location ) ) ]_vars

\* a text that looks like a vehicle query answered the shop-name question
C6_Witness ==
    /\ Delivered
    /\ last.trace[1].status = "waiting_seller_name"
    /\ last.trace[1].msg.body = t_query
    /\ users[last.trace[1].msg.from].metadata.shop_name = t_query
    /\ last.srch = <<>>

C8_FinalStepSetsUserKind ==
    [][ ( /\ InSurvey
          /\ Pre.status \in {"waiting_mechanic_name", "waiting_seller_logistics",
                             "waiting_buyer_urgency"}
          /\ Content # <<>>
          /\ ~IsCancelEvent(Arrived) )
        => ( Post.status = "bot" /\ Post.user_type = LeadType(Pre.status) ) ]_vars

\* C9: a global cancel in a survey sub-state returns the session to bot,
\* leaves user_type as it was and writes no answer; the steps before the
\* final one leave user_type as it was, so that it is still the value the
\* session had when the survey started.
C9_CancelKeepsUserKind ==
    [][ InSurvey
        => ( /\ IsCancelEvent(Arrived)
                    => ( /\ Post.status = "bot"
                         /\ Post.user_type = Pre.user_type
                         /\ Post.metadata = Pre.metadata
                         /\ Post.location = Pre.location )
             /\ Post.status \in SurveyStatuses => Post.user_type = Pre.user_type ) ]_vars

\* a registered mechanic cancelled the seller survey at the location question
C9_Witness ==
    /\ Delivered
    /\ last.trace[1].status = "waiting_seller_location"
    /\ last.trace[1].msg.id = Btn("btn_cancel_survey", <<>>)
    /\ users[last.trace[1].msg.from].status = "bot"
    /\ users[last.trace[1].msg.from].user_type = "mechanic"
    /\ users[last.trace[1].msg.from].metadata.location = <<>>

----------------------------------------------------------------------------
(* Return to bot *)

IsGreeting(m) ==
    m.type = "text" /\ Lower(Strip(m.body)) \in {w_hola, w_start, w_hi, w_hello, w_menu_acc, w_menu}
IsReturnAction(m) ==
    m.type = "interactive" /\ m.itype = "button_reply" /\ m.id = Btn("btn_return_bot", <<>>)

----------------------------------------------------------------------------
(* Timeout, modes, sessions *)

\* C11: an event for a session that was left in any mode other than bot for
\* longer than the timeout is handled with the session timed out to bot, and
\* it is not consumed as a survey answer.
C11_TimeoutFromEveryMode ==
    [][ ( /\ IsDelivery
          /\ Pre.exists
          /\ Pre.status # "bot"
          /\ now - Pre.last_active_at > 3600 )
        => ( /\ Outcome.timed_out
             /\ Outcome.status = "bot"
             /\ Post.metadata = Pre.metadata ) ]_vars

NotDiscarded == Outcome.result \in {"handled", "raised"}

\* C13: the first event that is not discarded from an identity without a
\* session creates its session with mode bot and user kind unknown and is
\* dispatched in bot mode (a query is searched, a greeting is welcomed); a
\* discarded event creates nothing; no step ever removes a session.
C13_FirstEventCreatesBotSession ==
    [][ /\ \A p \in Phones : users[p].exists => users'[p].exists
        /\ IsDelivery =>
              ( /\ (~Pre.exists /\ NotDiscarded)
                      => ( /\ Outcome.created
                           /\ Outcome.status = "bot"
                           /\ Post.exists
                           /\ Post.user_type = "unknown"
                           /\ (Arrived.type = "text" /\ ~IsCancelEvent(Arrived))
                                  => IF IsGreeting(Arrived)
                                     THEN last'.wa[1].text = Msg("WELCOME_TEXT", <<>>)
                                     ELSE /\ Len(last'.srch) = 1
                                          /\ last'.srch[1].status = "bot" )
                /\ (~Pre.exists /\ ~NotDiscarded) => ~Post.exists
                /\ Pre.exists => ~Outcome.created ) ]_vars

\* the first event of a new user was its query, searched in bot mode
C13_Witness ==
    /\ Delivered
    /\ last.trace[1].created
    /\ last.trace[1].msg.body = t_query
    /\ Len(last.srch) = 1
    /\ last.srch[1].status = "bot"
    /\ users[last.trace[1].msg.from].user_type = "unknown"

----------------------------------------------------------------------------
(* The result classifier *)

\* the delivery ran one search; Found is the page it got, Reply what it sent
Searched == IsDelivery /\ Len(last'.srch) = 1
Found == last'.srch[1].vehicles
Reply == last'.wa[Len(last'.wa)]

ZeroReplies == {"not_found", "feedback_thanks"}
ListReplies == {"found_options"}
ManyReplies == {"pick_model", "write_model", "narrow_search"}

BrandsOf(rows) == {rows[i].brand_car : i \in 1..Len(rows)}
ModelsOf(rows) == {rows[i].model : i \in 1..Len(rows)}

\* C14: every search sends one reply, of the zero-match kind exactly when
\* the page is empty, the selectable list of vehicles exactly when it has
\* 1 to 10 rows, and one of the too-many replies exactly when it has more
\* than 10 rows.
C14_OneBranchByRowCount ==
    [][ Searched
        => ( /\ Len(last'.wa) = 1
             /\ Reply.text.tag \in ZeroReplies \cup ListReplies \cup ManyReplies
             /\ Reply.text.tag \in ZeroReplies <=> Len(Found) = 0
             /\ Reply.text.tag \in ListReplies <=> (1 <= Len(Found) /\ Len(Found) <= 10)
             /\ Reply.text.tag \in ManyReplies <=> Len(Found) > 10 ) ]_vars

\* a page of exactly ten rows was answered with the list of vehicles
C14_Witness ==
    /\ Delivered
    /\ Len(last.srch) = 1
    /\ Len(last.srch[1].vehicles) = 10
    /\ last.wa[1].text.tag = "found_options"

\* C15: a page of more than 10 rows of one brand with 2 to 10 distinct
\* models is answered with a list that has one entry per distinct model,
\* the entry of model m carrying the query "<brand> <m>"; picking an entry
\* in bot or menu_mode searches that query in that mode.
C15_ModelMenuAndItsEntries ==
    [][ IsDelivery
        => ( /\ ( /\ Searched
                  /\ Len(Found) > 10
                  /\ Cardinality(BrandsOf(Found)) = 1
                  /\ Cardinality(ModelsOf(Found)) \in 2..10 )
                => ( /\ Reply.kind = "list"
                     /\ Len(Reply.rows) = Cardinality(ModelsOf(Found))
                     /\ {Reply.rows[i].id : i \in 1..Len(Reply.rows)}
                            = {Btn("cmd_search_", b \o <<" ">> \o m) :
                                   b \in BrandsOf(Found), m \in ModelsOf(Found)} )
             /\ ( /\ Arrived.itype = "list_reply"
                  /\ Arrived.id.base = "cmd_search_"
                  /\ Outcome.status \in {"bot", "menu_mode"} )
                => ( /\ Len(last'.srch) = 1
                     /\ last'.srch[1].query = Arrived.id.arg
                     /\ last'.srch[1].status = Outcome.status ) ) ]_vars

\* the entry "Ford Ka" of a model menu was picked in menu_mode and searched
C15_Witness ==
    /\ Delivered
    /\ last.trace[1].msg.itype = "list_reply"
    /\ last.trace[1].status = "menu_mode"
    /\ Len(last.srch) = 1
    /\ last.srch[1].query = <<"F","o","r","d"," ","K","a">>
    /\ last.srch[1].status = "menu_mode"

\* C16, as stated: a page of 12 rows that are all Ford is answered with the
\* model menu.
C16_TwelveFordsGetTheMenu ==
    [][ ( Searched /\ Len(Found) = 12 /\ BrandsOf(Found) = {b_ford} )
        => ( Reply.kind = "list" /\ Reply.text.tag = "pick_model" ) ]_vars

\* C16, amended: a page of 12 rows that are all Ford is answered with the
\* model menu when the rows carry 2 to 10 distinct model names, with the
\* plain-text request to write the model when they carry more than 10, and
\* with the narrow-your-search reply when they carry one.
C16_TwelveFordsByModelCount ==
    [][ ( Searched /\ Len(Found) = 12 /\ BrandsOf(Found) = {b_ford} )
        => ( /\ Cardinality(ModelsOf(Found)) \in 2..10
                    => ( Reply.kind = "list" /\ Reply.text.tag = "pick_model" )
             /\ Cardinality(ModelsOf(Found)) > 10
                    => ( Reply.kind = "text" /\ Reply.text.tag = "write_model" )
             /\ Cardinality(ModelsOf(Found)) = 1
                    => ( Reply.kind = "text" /\ Reply.text.tag = "narrow_search" ) ) ]_vars

\* twelve rows with the twelve models of Ford were answered in plain text
C16_Witness ==
    /\ Delivered
    /\ Len(last.srch) = 1
    /\ Len(last.srch[1].vehicles) = 12
    /\ Cardinality(ModelsOf(last.srch[1].vehicles)) = 12
    /\ last.wa[1].kind = "text"
    /\ last.wa[1].text.tag = "write_model"

\* C17: a search without matches in menu_mode is taken as feedback: it is
\* logged to the operator topic of the session, acknowledged to the user,
\* and the session goes to bot; in bot mode it is answered with the
\* not-found reply that offers human help and another try, and the session
\* stays in bot.
C17_ZeroMatches ==
    [][ ( Searched /\ Found = <<>> )
        => IF Outcome.status = "menu_mode"
           THEN /\ Reply.text.tag = "feedback_thanks"
                /\ Post.status = "bot"
                /\ Pre.topic => \E i \in 1..Len(last'.tg) :
                                    last'.tg[i].text = Msg("feedback", last'.srch[1].query)
           ELSE /\ Reply.text = Msg("not_found", last'.srch[1].query)
                /\ \E i \in 1..Len(Reply.buttons) :
                        Reply.buttons[i] = Btn("btn_human_help", <<>>)
                /\ \E i \in 1..Len(Reply.buttons) :
                        Reply.buttons[i] = Btn("btn_search_retry", <<>>)
                /\ Post.status = "bot" ]_vars

\* a text without matches was taken as feedback and ended menu_mode
C17_Witness ==
    /\ Delivered
    /\ last.trace[1].status = "menu_mode"
    /\ Len(last.srch) = 1
    /\ last.srch[1].vehicles = <<>>
    /\ last.wa[1].text.tag = "feedback_thanks"
    /\ users[last.trace[1].msg.from].status = "bot"

\* C18: a page of 1 to 10 rows is answered with a list that has one entry
\* per row, in the order of the page, the identifier of entry i reading as
\* the vehicle_id of row i.
C18_ListOfVehicles ==
    [][ ( Searched /\ 1 <= Len(Found) /\ Len(Found) <= 10 )
        => ( /\ Reply.kind = "list"
             /\ Len(Reply.rows) = Len(Found)
             /\ \A i \in 1..Len(Found) :
                    /\ Reply.rows[i].id.base = ""
                    /\ IsDigit(Reply.rows[i].id.arg)
                    /\ Val(Reply.rows[i].id.arg) = Found[i].vehicle_id ) ]_vars

\* ten vehicles were listed, the tenth with identifier 110
C18_Witness ==
    /\ Delivered
    /\ Len(last.srch) = 1
    /\ Len(last.srch[1].vehicles) = 10
    /\ Len(last.wa[1].rows) = 10
    /\ last.wa[1].rows[10].id.arg = <<"1","1","0">>

\* the reply the classifier owes to a set of rows
ExpectedReplies(rows) ==
    IF Len(rows) = 0 THEN ZeroReplies
    ELSE IF Len(rows) <= 10 THEN ListReplies
    ELSE IF Cardinality(BrandsOf(rows)) = 1 /\ Cardinality(ModelsOf(rows)) \in 2..10
    THEN {"pick_model"}
    ELSE IF Cardinality(BrandsOf(rows)) = 1 /\ Cardinality(ModelsOf(rows)) > 10
    THEN {"write_model"}
    ELSE {"narrow_search"}

\* C19: the reply to a search is the one the full set of matches calls
\* for, and a model menu offers every distinct model of the full set, although
\* the classifier sees the first 15 matches only.
C19_PageClassifiesLikeAllMatches ==
    [][ Searched
        => ( /\ Reply.text.tag \in ExpectedReplies(last'.srch[1].matches)
             /\ Reply.text.tag = "pick_model"
                    => Len(Reply.rows) = Cardinality(ModelsOf(last'.srch[1].matches)) ) ]_vars

----------------------------------------------------------------------------
(* The query parser *)

\* a 4-digit token from 1950 to 2030 that is no whitelisted model
IsYearToken(t) ==
    /\ Len(t) = 4
    /\ \A i \in 1..4 : t[i] \in {"0","1","2","3","4","5","6","7","8","9"}
    /\ 1950 <= Val(t) /\ Val(t) <= 2030
    /\ t \notin {<<"3","0","0","8">>, <<"5","0","0","8">>}

\* C20: in the parse of a searched text no year token is among the text
\* tokens; the year filter is the value of the year token of the text (of
\* the last one when it has two) and unset when it has none; "Hilux 2015"
\* parses to the text tokens <<"hilux">> with year filter 2015.
C20_YearTokens ==
    (last.op = "webhook" /\ Len(last.srch) = 1)
    => LET q == last.srch[1].q_data
           toks == Tokens(last.srch[1].query)
           years == {i \in 1..Len(toks) : IsYearToken(toks[i])}
       IN /\ \A i \in years : \A j \in 1..Len(q.text_tokens) : q.text_tokens[j] # toks[i]
          /\ years # {} => q.year_filter = Val(toks[CHOOSE i \in years : \A j \in years : j <= i])
          /\ years = {} => q.year_filter = NoYear
          /\ last.srch[1].query = <<"H","i","l","u","x"," ","2","0","1","5">>
                => ( /\ q.text_tokens = <<<<"h","i","l","u","x">>>>
                     /\ q.year_filter = 2015
                     /\ q.engine_filter = NoEngine )

\* "Hilux 2015" was searched
C20_Witness ==
    /\ last.op = "webhook"
    /\ Len(last.srch) = 1
    /\ last.srch[1].query = <<"H","i","l","u","x"," ","2","0","1","5">>
    /\ last.srch[1].q_data.year_filter = 2015
    /\ last.srch[1].q_data.text_tokens = <<<<"h","i","l","u","x">>>>

\* the number of times t occurs in seq
Count(seq, t) == Cardinality({i \in 1..Len(seq) : seq[i] = t})

\* the models whose names look like numbers
ListedModels ==
    {<<"2","0","6">>, <<"2","0","7">>, <<"2","0","8">>, <<"3","0","6">>, <<"3","0","7">>,
     <<"3","0","8">>, <<"4","0","5">>, <<"4","0","8">>, <<"5","0","4">>, <<"5","0","5">>,
     <<"3","0","0","8">>, <<"5","0","0","8">>, <<"5","0","0">>,
     <<"f","1","0","0">>, <<"f","1","5","0">>,
     <<"r","a","m","1","5","0","0">>, <<"r","a","m","2","5","0","0">>}

\* C21: every token of a searched text that is in the numeric-model
\* whitelist is among the text tokens, as often as it is in the text, and
\* is the value of neither filter; a text made of such tokens alone sets no
\* filter at all.
C21_WhitelistTokensAreText ==
    (last.op = "webhook" /\ Len(last.srch) = 1)
    => LET q == last.srch[1].q_data
           toks == Tokens(last.srch[1].query)
       IN /\ \A i \in 1..Len(toks) :
                toks[i] \in ListedModels
                => /\ Count(q.text_tokens, toks[i]) = Count(toks, toks[i])
                   /\ IsDigit(toks[i]) => q.year_filter # Val(toks[i])
                   /\ q.engine_filter \notin {toks[i], toks[i] \o <<".","0">>}
          /\ (\A i \in 1..Len(toks) : toks[i] \in ListedModels)
                => q.year_filter = NoYear /\ q.engine_filter = NoEngine

\* "3008 2015" was searched: 3008 is a text token and 2015 the year
C21_Witness ==
    /\ last.op = "webhook"
    /\ Len(last.srch) = 1
    /\ last.srch[1].query = <<"3","0","0","8"," ","2","0","1","5">>
    /\ last.srch[1].q_data.text_tokens = <<<<"3","0","0","8">>>>
    /\ last.srch[1].q_data.year_filter = 2015

\* a token that the displacement test takes: no stop word, no whitelisted
\* model and no year
IsEngineToken(t) ==
    /\ t \notin STOP_WORDS /\ t \notin ListedModels /\ ~IsYearToken(t)
    /\ IsEngine(t)

\* C22: when a searched text holds several year tokens the year filter is
\* the first of them in the order of the text, and when it holds several
\* displacement tokens the engine filter is the first of them; none of
\* them is among the text tokens.
C22_FirstFilterWins ==
    (last.op = "webhook" /\ Len(last.srch) = 1)
    => LET q == last.srch[1].q_data
           toks == Tokens(last.srch[1].query)
           years == {i \in 1..Len(toks) : IsYearToken(toks[i])}
           engines == {i \in 1..Len(toks) : IsEngineToken(toks[i])}
       IN /\ Cardinality(years) > 1
                => q.year_filter = Val(toks[CHOOSE i \in years : \A j \in years : i <= j])
          /\ Cardinality(engines) > 1
                => q.engine_filter =
                      EngineNorm(toks[CHOOSE i \in engines : \A j \in engines : i <= j])
          /\ \A i \in years \cup engines : Count(q.text_tokens, toks[i]) = 0

\* the words of a sequence, a blank between two of them
RECURSIVE JoinAll(_)
JoinAll(ws) ==
    IF ws = <<>> THEN <<>>
    ELSE IF Len(ws) = 1 THEN ws[1]
    ELSE ws[1] \o <<" ">> \o JoinAll(Tail(ws))

\* the text that states a parsed query: its text tokens, its year, its
\* displacement
Rebuild(q) ==
    JoinAll(q.text_tokens
            \o (IF q.year_filter = NoYear THEN <<>> ELSE <<Str(q.year_filter)>>)
            \o (IF q.engine_filter = NoEngine THEN <<>> ELSE <<q.engine_filter>>))

\* C23: the parse of a searched text is a fixed point: parsing the text
\* rebuilt from its text tokens and filters gives the same text tokens,
\* year filter and engine filter, also for texts with vw, volks,
\* volkswagen, mb or mercedes.
C23_ParseIsIdempotent ==
    (last.op = "webhook" /\ Len(last.srch) = 1)
    => parse_search_query(Rebuild(last.srch[1].q_data)) = last.srch[1].q_data

\* digits with at most one point among them
IsNumber(r) ==
    /\ \E i \in 1..Len(r) : r[i] \in {"0","1","2","3","4","5","6","7","8","9"}
    /\ \A i \in 1..Len(r) : r[i] \in {"0","1","2","3","4","5","6","7","8","9","."}
    /\ Cardinality({i \in 1..Len(r) : r[i] = "."}) <= 1

\* a word that ends in the liter marker and is no number before it
IsLWord(t) ==
    /\ t # <<>> /\ t[Len(t)] = "l"
    /\ ~IsNumber(SubSeq(t, 1, Len(t) - 1))
    /\ t \notin STOP_WORDS /\ t \notin ListedModels

\* C24: "Gol Trend 1.6" parses to the text tokens gol, trend, the engine
\* filter 1.6 and no year filter; a token that ends in l and is no number
\* before the l is a text token, and a text whose other tokens are no
\* displacements has no engine filter.
C24_GolTrend ==
    (last.op = "webhook" /\ Len(last.srch) = 1)
    => LET q == last.srch[1].q_data
           toks == Tokens(last.srch[1].query)
       IN /\ last.srch[1].query = t_gol_trend
                => q = [text_tokens |-> <<<<"g","o","l">>, <<"t","r","e","n","d">>>>,
                        year_filter |-> NoYear,
                        engine_filter |-> <<"1",".","6">>]
          /\ \A i \in 1..Len(toks) :
                IsLWord(toks[i]) => Count(q.text_tokens, toks[i]) = Count(toks, toks[i])
          /\ ( /\ \E i \in 1..Len(toks) : IsLWord(toks[i])
               /\ \A i \in 1..Len(toks) : ~IsEngineToken(toks[i]) )
                => q.engine_filter = NoEngine

\* "Gol Trend 1.6" was searched and found the Gol Trend 1.6 of the table
C24_Witness ==
    /\ last.op = "webhook"
    /\ Len(last.srch) = 1
    /\ last.srch[1].query = t_gol_trend
    /\ last.srch[1].q_data.engine_filter = <<"1",".","6">>
    /\ Len(last.srch[1].q_data.text_tokens) = 2
    /\ Len(last.srch[1].vehicles) = 1

----------------------------------------------------------------------------
(* The filters of the search *)

PlainChars ==
    {"a","b","c","d","e","f","g","h","i","j","k","l","m","n","o","p","q","r","s","t",
     "u","v","w","x","y","z","0","1","2","3","4","5","6","7","8","9"}

\* a character in lower case and without its accent
FoldChar(ch) ==
    CASE LowerChar(ch) = "a_acute" -> "a"
      [] LowerChar(ch) = "e_acute" -> "e"
      [] LowerChar(ch) = "i_acute" -> "i"
      [] LowerChar(ch) = "o_acute" -> "o"
      [] LowerChar(ch) \in {"u_acute", "u_diaeresis"} -> "u"
      [] LowerChar(ch) = "n_tilde" -> "n"
      [] OTHER -> LowerChar(ch)
Fold(s) == [i \in 1..Len(s) |-> FoldChar(s[i])]

\* the words of s: the longest runs of letters and digits
WordsOf(s) ==
    UNION { { SubSeq(s, i, j) : j \in { b \in i..Len(s) :
                  /\ \A k \in i..b : s[k] \in PlainChars
                  /\ (i = 1 \/ s[i - 1] \notin PlainChars)
                  /\ (b = Len(s) \/ s[b + 1] \notin PlainChars) } } : i \in 1..Len(s) }

\* a token of letters and digits without accents
IsPlain(t) == t # <<>> /\ \A i \in 1..Len(t) : t[i] \in PlainChars

\* what a plain token is to select: a whole word of a column when it has at
\* most 3 characters, a part of a column when it has more, accents and case
\* of the column apart
Expected(v, t) ==
    IF Len(t) <= 3
    THEN t \in WordsOf(Fold(v.brand_car)) \cup WordsOf(Fold(v.model))
    ELSE Contains(Fold(v.brand_car), t) \/ Contains(Fold(v.model), t)

RowsOf(seq) == {seq[i] : i \in 1..Len(seq)}

\* C25: a row that a search selects is one that every plain text token of
\* the query selects, and when the query is made of plain text tokens alone
\* the rows selected are exactly those: a token of at most 3 characters
\* selects the rows that hold it as a whole word of a column, a longer
\* token those that hold it as a part of a column, without regard to
\* accents in the column; the search for "mio" selects the row "Clio Mio"
\* (its i accented) and not the row "Kamion".
C25_ShortTokensAreWholeWords ==
    (last.op = "webhook" /\ Len(last.srch) = 1)
    => LET q == last.srch[1].q_data
           found == RowsOf(last.srch[1].matches)
           plain == {j \in 1..Len(q.text_tokens) : IsPlain(q.text_tokens[j])}
       IN /\ \A v \in found : \A j \in plain : Expected(v, q.text_tokens[j])
          /\ ( /\ plain = 1..Len(q.text_tokens)
               /\ q.year_filter = NoYear /\ q.engine_filter = NoEngine )
                => found = {v \in RowsOf(Catalog) : \A j \in plain : Expected(v, q.text_tokens[j])}
          /\ last.srch[1].query = <<"m","i","o">>
                => /\ \E v \in found : v.model = <<"C","l","i","o"," ","M","i_acute","o">>
                   /\ \A v \in found : v.model # <<"K","a","m","i","o","n">>

\* "mio" was searched and selected the row "Clio Mio" alone
C25_Witness ==
    /\ last.op = "webhook"
    /\ Len(last.srch) = 1
    /\ last.srch[1].query = <<"m","i","o">>
    /\ last.srch[1].q_data.text_tokens = <<<<"m","i","o">>>>
    /\ Len(last.srch[1].matches) = 1
    /\ last.srch[1].matches[1].vehicle_id = 1

----------------------------------------------------------------------------
(* Failures *)

\* C26: a delivery during which a call to the store raised is still
\* acknowledged: the exception does not leave the handler.
C26_StoreFailuresAreCaught ==
    [][ (IsDelivery /\ last'.fault # 0) => last'.ctl # "raise" ]_vars

\* the event selects a vehicle in a list of results
IsVehicleSelection(m) ==
    m.type = "interactive" /\ m.itype = "list_reply" /\ m.id.base # "cmd_search_"

\* C27: the selection of a vehicle in a list, in bot or menu_mode, is
\* answered on the primary channel (with the card of the vehicle, or with a
\* notice when the vehicle is not in the catalog), the handler completes
\* and the mode stays as it was.
C27_MissingVehicleIsReported ==
    [][ ( IsDelivery /\ IsVehicleSelection(Arrived)
          /\ Outcome.status \in {"bot", "menu_mode"} )
        => ( /\ last'.ctl # "raise"
             /\ Len(last'.wa) >= 1
             /\ Post.status = Pre.status ) ]_vars

\* the buttons that bot mode and menu_mode answer
KnownButtons ==
    {"btn_add_missing_", "btn_human_help", "btn_return_bot", "btn_search_retry",
     "btn_search_error", "btn_buy_loc", "btn_menu_mech", "btn_back_actions",
     "btn_is_mechanic", "btn_is_seller", "btn_cancel_survey"}

\* no branch of the routing is written for the event in the given mode
Unhandled(status, m) ==
    /\ ~IsCancelEvent(m)
    /\ \/ /\ status \in {"bot", "menu_mode"}
          /\ \/ m.type \notin {"text", "interactive"}
             \/ m.type = "interactive" /\ m.itype = "button_reply"
                /\ m.id.base \notin KnownButtons
       \/ status \in SurveyStatuses /\ Strip(get_message_content(m)) = <<>>
       \/ status \notin Statuses

RECURSIVE RepliesOf(_)
RepliesOf(out) ==
    IF out = <<>> THEN <<>>
    ELSE IF Head(out).via = "reply" THEN <<Head(out).text>> \o RepliesOf(Tail(out))
    ELSE RepliesOf(Tail(out))

RECURSIVE MirrorsOf(_)
MirrorsOf(tg) ==
    IF tg = <<>> THEN <<>>
    ELSE IF Head(tg).text.tag = "mirror" THEN <<Head(tg).text.arg>> \o MirrorsOf(Tail(tg))
    ELSE MirrorsOf(Tail(tg))

DirectSends(out) == {i \in 1..Len(out) : out[i].via = "direct"}

\* C29: the two sends of reply_and_mirror are isolated. Whether or not the
\* primary channel takes the message, every reply is mirrored (for a session
\* with a topic the mirrored texts are the replied texts, in order); when the
\* mirror cannot be reached the replies still arrive; and a delivery that
\* ends in an exception had a failing store call, a send outside
\* reply_and_mirror or a vehicle lookup, never a reply alone.
C29_ReplyAndMirrorAreIsolated ==
    [][ IsDelivery =>
          /\ (Pre.exists /\ Pre.topic) => MirrorsOf(last'.tg) = RepliesOf(last'.out)
          /\ ~last'.waDown
                => /\ Len(last'.wa) = Len(last'.out)
                   /\ \A i \in 1..Len(last'.wa) : last'.wa[i].text = last'.out[i].text
          /\ last'.ctl = "raise"
                => \/ last'.fault # 0
                   \/ DirectSends(last'.out) # {}
                   \/ IsVehicleSelection(Arrived) ]_vars

\* the primary channel was down: the reply did not arrive, its mirror did
C29_Witness ==
    /\ Delivered /\ last.waDown /\ last.ctl = "continue" /\ last.fault = 0
    /\ last.wa = <<>>
    /\ RepliesOf(last.out) # <<>>
    /\ MirrorsOf(last.tg) = RepliesOf(last.out)

----------------------------------------------------------------------------
(* Concurrent handlers *)

\* the metadata key that the answer to a sub-state is stored under
KeyOf(status) ==
    CASE status = "waiting_mechanic_priority" -> "priority"
      [] status \in {"waiting_mechanic_name", "waiting_seller_name"} -> "shop_name"
      [] status \in {"waiting_seller_location", "waiting_buyer_location"} -> "location"
      [] status = "waiting_seller_logistics" -> "logistics"
      [] status = "waiting_buyer_urgency" -> "urgency"

\* the sub-state that follows an answer
After(status) ==
    CASE status = "waiting_mechanic_priority" -> "waiting_mechanic_name"
      [] status = "waiting_seller_name" -> "waiting_seller_location"
      [] status = "waiting_seller_location" -> "waiting_seller_logistics"
      [] status = "waiting_buyer_location" -> "waiting_buyer_urgency"
      [] OTHER -> "bot"

\* C30: nothing ties the writes of a handler to the state of the store at
\* the time of the write.  A handler that finishes routes on the status it
\* loaded, an answer to a survey moves the session to the sub-state after
\* the loaded one, and the metadata it writes are the metadata it read with
\* its own key replaced, whatever other handlers of the same identity have
\* written in between.
C30_WritesFollowStaleReads ==
    [][ \A s \in 1..MaxInflight :
          (inflight[s].pc # "idle" /\ inflight'[s].pc = "idle")
          => /\ last'.trace[1].status = inflight[s].status
             /\ inflight[s].pc = "read"
                => /\ users'[inflight[s].msg.from].status = After(inflight[s].status)
                   /\ \A k \in DOMAIN NoMeta \ {KeyOf(inflight[s].status)} :
                         users'[inflight[s].msg.from].metadata[k] = inflight[s].current[k] ]_vars

\* a lost update: the answer with the location was stored (the column is
\* set) and a handler that had read the metadata before wrote them back
\* without it, and moved the session back to the question already answered
C30_Witness ==
    /\ \A s \in 1..MaxInflight : inflight[s].pc = "idle"
    /\ users["p1"].location # <<>>
    /\ users["p1"].metadata.location = <<>>
    /\ users["p1"].metadata.shop_name # <<>>
    /\ users["p1"].status = "waiting_seller_location"

----------------------------------------------------------------------------
(* The dedup cache and payloads of several changes *)

\* the identifiers that a sequence of handled changes records, in order
RECURSIVE RecordedIn(_)
RecordedIn(tr) ==
    IF tr = <<>> THEN <<>>
    ELSE IF Head(tr).result \in {"handled", "raised"} /\ Head(tr).msg.msg_id # NoId
    THEN <<Head(tr).msg.msg_id>> \o RecordedIn(Tail(tr))
    ELSE RecordedIn(Tail(tr))

\* the n most recent elements of a sequence
MostRecent(a, n) == IF Len(a) <= n THEN a ELSE SubSeq(a, Len(a) - n + 1, Len(a))

\* the cache after the changes of tr, starting from ids
CacheAfter(ids, tr) == MostRecent(ids \o RecordedIn(tr), DEDUP_MAXLEN)

\* C31: the dedup cache never holds more than its maximum of identifiers;
\* it holds the most recently recorded ones, the oldest giving way; and a
\* change is discarded as a duplicate exactly when its identifier is among
\* them at that moment.
C31_CacheHoldsTheMostRecent ==
    [][ IsStep("webhook") =>
          /\ Len(PROCESSED_MSG_IDS') <= DEDUP_MAXLEN
          /\ PROCESSED_MSG_IDS' = CacheAfter(PROCESSED_MSG_IDS, last'.trace)
          /\ \A i \in 1..Len(last'.trace) :
                (last'.trace[i].result = "ignored_duplicate")
                <=> /\ last'.trace[i].msg.msg_id # NoId
                    /\ last'.trace[i].result # "ignored_stale"
                    /\ \E j \in 1..DEDUP_MAXLEN :
                          LET kept == CacheAfter(PROCESSED_MSG_IDS,
                                                 SubSeq(last'.trace, 1, i - 1))
                          IN j <= Len(kept) /\ kept[j] = last'.trace[i].msg.msg_id ]_vars

\* an identifier is recorded, as many others as the cache holds follow and
\* push it out, and it is handled again when it arrives once more
C31_Witness ==
    /\ last.op = "webhook"
    /\ Len(last.trace) = DEDUP_MAXLEN + 2
    /\ \A i \in 1..Len(last.trace) : last.trace[i].result = "handled"
    /\ last.trace[1].msg.msg_id # NoId
    /\ last.trace[1].msg.msg_id = last.trace[Len(last.trace)].msg.msg_id
    /\ Len(PROCESSED_MSG_IDS) = DEDUP_MAXLEN

\* C32: every change of a payload is handled or discarded on its own: the
\* record of a delivery has one entry for each change the payload carries.
C32_EveryChangeIsReached ==
    [][ IsStep("webhook") => Len(last'.trace) = delivered' - delivered ]_vars

\* the identifier is in the dedup cache
Cached(ids, id) == \E i \in 1..Len(ids) : ids[i] = id

\* C33: an identifier counts as processed only when its event was handled
\* to the end: a delivery that a store exception aborts leaves its
\* identifier out of the dedup cache, so that the redelivery is handled.
C33_AbortedDeliveryIsNotRecorded ==
    [][ ( IsDelivery /\ last'.fault # 0 /\ last'.ctl = "raise" )
        => ~Cached(PROCESSED_MSG_IDS', Arrived.msg_id) ]_vars

\* C34: of the deliveries of one identifier that are handled at the same
\* time only one passes the dedup guard.  A delivery passes while another
\* delivery of its identifier is in flight only when that identifier has
\* been pushed out of the full cache in between.
C34_OnePassesTheGuard ==
    [][ \A s \in 1..MaxInflight :
          ( inflight[s].pc = "idle" /\ inflight'[s].pc = "passed"
            /\ inflight'[s].msg.msg_id # NoId )
          => \A t \in (1..MaxInflight) \ {s} :
                ( inflight[t].pc = "passed"
                  /\ inflight[t].msg.msg_id = inflight'[s].msg.msg_id )
                => ( Len(PROCESSED_MSG_IDS) = DEDUP_MAXLEN
                     /\ ~Cached(PROCESSED_MSG_IDS, inflight'[s].msg.msg_id) ) ]_vars

\* an identifier is in flight and its second delivery has just been
\* discarded as a duplicate
C34_Witness ==
    /\ last.op = "arrive" /\ Len(last.trace) = 1
    /\ last.trace[1].result = "ignored_duplicate"
    /\ \E t \in 1..MaxInflight :
          inflight[t].pc = "passed" /\ inflight[t].msg.msg_id = last.trace[1].msg.msg_id

\* C34 as stated: no two deliveries of one identifier are past the guard at
\* the same time
C34_NeverTwoPastTheGuard ==
    \A s, t \in 1..MaxInflight :
        ( s # t /\ inflight[s].pc = "passed" /\ inflight[t].pc = "passed"
          /\ inflight[s].msg.msg_id # NoId )
        => inflight[s].msg.msg_id # inflight[t].msg.msg_id

----------------------------------------------------------------------------
(* The operator side *)

TagsOf(log) == {log[i].text.tag : i \in 1..Len(log)}

\* C37: the event that trips the human timeout is handled in the same
\* delivery as a bot-mode event -- a cancel is a cancel, a greeting is
\* greeted, another text is searched, a button is dispatched -- it is not
\* forwarded to the operator as a human-mode message, and last_active_at
\* becomes the time of the delivery.
C37_TimeoutEventIsABotEvent ==
    [][ ( IsDelivery /\ Outcome.timed_out )
        => ( /\ Outcome.status = "bot"
             /\ Post.last_active_at = now
             /\ TagsOf(last'.tg) \cap {"forward", "forward_media", "keyword_bot_active",
                                       "returned_to_bot"} = {}
             /\ Pre.topic => "session_expired" \in TagsOf(last'.tg)
             /\ IsCancelEvent(Arrived)
                   => ( Post.status = "bot" /\ last'.srch = <<>>
                        /\ TagsOf(last'.out) = {"SHORT_WELCOME"} )
             /\ ( ~IsCancelEvent(Arrived) /\ IsGreeting(Arrived) )
                   => ( Post.status = "bot" /\ last'.srch = <<>>
                        /\ TagsOf(last'.out) = {"WELCOME_TEXT"} )
             /\ ( ~IsCancelEvent(Arrived) /\ ~IsGreeting(Arrived)
                  /\ Arrived.type = "text" /\ Content # <<>> )
                   => ( Post.status = "bot" /\ Len(last'.srch) = 1 )
             /\ Arrived.id = Btn("btn_human_help", <<>>)
                   => ( last'.srch = <<>> /\ TagsOf(last'.out) = {"human_mode_on"} )
             /\ Arrived.type \notin {"text", "interactive"}
                   => ( Post.status = "bot" /\ last'.out = <<>> ) ) ]_vars

\* a human session past the timeout wrote a query: it was searched
C37_Witness ==
    /\ Delivered /\ last.trace[1].timed_out
    /\ last.trace[1].msg.type = "text" /\ Len(last.srch) = 1
    /\ users[last.trace[1].msg.from].status = "bot"
    /\ users[last.trace[1].msg.from].last_active_at = now
    /\ now > TIMEOUT_SECONDS

----------------------------------------------------------------------------
(* Survey flows *)

\* the number of answers a sub-state is away from the end of its flow
StepsLeft(status) ==
    CASE status = "waiting_seller_name" -> 3
      [] status \in {"waiting_mechanic_priority", "waiting_seller_location",
                     "waiting_buyer_location"} -> 2
      [] status \in {"waiting_mechanic_name", "waiting_seller_logistics",
                     "waiting_buyer_urgency"} -> 1
      [] OTHER -> 0

\* C38: every event with a text, delivered to a session in a survey
\* sub-state, takes the session at least one answer closer to the end of
\* its flow: to a later sub-state of the same flow or to bot, never to
\* human or menu_mode.  A flow is therefore left after at most 3 such
\* events (mechanic 2, seller 3, buyer 2).
C38_SurveysEndInBot ==
    [][ ( InSurvey /\ Content # <<>> )
        => ( /\ Post.status \in SurveyStatuses \cup {"bot"}
             /\ StepsLeft(Post.status) < StepsLeft(Pre.status) ) ]_vars

\* the third answer of the seller flow has ended it
C38_Witness ==
    /\ Delivered /\ delivered = 4
    /\ last.trace[1].status = "waiting_seller_logistics"
    /\ users[last.trace[1].msg.from].status = "bot"
    /\ users[last.trace[1].msg.from].user_type = "seller"

\* C39: in every mode but human -- bot and menu_mode included, and for an
\* identity that had no session -- an event that is a global cancel (one
\* of the six keywords in any case, or the btn_cancel_survey button) leaves
\* the session in bot, is answered with the short welcome only, is not
\* searched, and stores no survey answer.
C39_CancelInEveryBotMode ==
    [][ ( /\ IsDelivery /\ NotDiscarded
          /\ Outcome.status # "human"
          /\ IsCancelEvent(Arrived) )
        => ( /\ Post.status = "bot"
             /\ last'.srch = <<>>
             /\ TagsOf(last'.out) = {"SHORT_WELCOME"}
             /\ Pre.exists => ( /\ Post.metadata = Pre.metadata
                                /\ Post.user_type = Pre.user_type ) ) ]_vars

\* a cancel keyword arrived in menu_mode
C39_Witness ==
    /\ Delivered
    /\ last.trace[1].status = "menu_mode"
    /\ last.trace[1].msg.type = "text"
    /\ TagsOf(last.out) = {"SHORT_WELCOME"}
    /\ users[last.trace[1].msg.from].status = "bot"

\* C40: an operator's reply in the topic of a session leaves the session
\* in human whatever its mode was, a survey sub-state included, and
\* changes neither user_type nor metadata nor, when the mode was human
\* already, anything else; the operator's resolve leaves the session in
\* bot whatever its mode was.
C40_OperatorSetsTheMode ==
    [][ \A p \in Phones :
          /\ IsStep("admin_reply")
                => ( /\ users'[p].status = "human"
                     /\ users'[p].user_type = users[p].user_type
                     /\ users'[p].metadata = users[p].metadata
                     /\ users[p].status = "human" => users'[p] = users[p] )
          /\ IsStep("resolve") => users'[p].status = "bot" ]_vars

====
